---- MODULE Spec2Model ----
(***************************************************************************)
(* A model of the SpliceAI-lookup server (src/server.py): the variant      *)
(* parser, the rate limiter and the result cache kept in Redis, the        *)
(* scoring endpoint (run_spliceai / process_variant) and the liftover      *)
(* endpoint (run_liftover / run_UCSC_liftover_tool), and of the test       *)
(* client's post-processing (src/TestingDocker.py).                        *)
(*                                                                         *)
(* Python strings whose characters matter (variant descriptors, Redis      *)
(* keys, alleles) are sequences of one-character strings; a Python dict is *)
(* a function whose domain is its set of keys.  Every handler is cut into  *)
(* steps at its Redis operations and at its slow external calls, so that   *)
(* concurrent requests interleave exactly where the server's workers do.   *)
(***************************************************************************)
EXTENDS Integers, Sequences, FiniteSets, TLC

VARIABLES
    now,        \* the wall clock, in clock quanta (time.time() / Redis TTL clock)
    redisUp,    \* whether the Redis backend answers
    nfail,      \* how many times the backend has gone down so far
    markers,    \* Redis: the rate-limit marker keys, key |-> expiry deadline
    cache,      \* Redis: the result cache, key |-> serialized result
    pc,         \* per worker: the step it is at
    req,        \* per worker: the request it handles
    loc,        \* per worker: the handler's local variables
    resp,       \* per worker: the response being returned
    nreq,       \* how many requests have been issued so far
    trail,      \* history: per (user, class) the verdicts of one clean window
    orig,       \* history: per cache key, the results of the request that stored it
    owner,      \* history: per cache key, the parameters of the request that stored it
    burst,      \* the request a burst client repeats
    pin,        \* parser harness: the descriptor handed to parse_variant
    pout,       \* parser harness: what parse_variant returned
    df          \* test client: the dataframe row built from the last response

vars == <<now, redisUp, nfail, markers, cache, pc, req, loc, resp, nreq,
          trail, orig, owner, burst, pin, pout, df>>

-----------------------------------------------------------------------------
(* Bounds of the model.                                                    *)

MaxRequests == 2      \* requests issued in one behaviour of Spec
MaxBurst == 21        \* requests issued in one behaviour of SpecBurst
MaxTime == 90         \* the clock stops here
MaxOther == 1         \* requests of the second client in one behaviour of SpecBurst
MaxFailures == 1      \* backend outages in one behaviour
MaxSeq == 2           \* requests issued in one behaviour of SpecSeq
MaxRace == 5          \* requests issued in one behaviour of SpecRace
MaxOpen == 6          \* requests issued in one behaviour of SpecOpen
MaxTock == 1          \* clock steps between two requests' ends in SpecRace

-----------------------------------------------------------------------------
(* Program constants (src/server.py, lines 72-82).                         *)

SPLICEAI_MAX_DISTANCE_LIMIT == 10000
SPLICEAI_DEFAULT_DISTANCE == 50
SPLICEAI_DEFAULT_MASK == 0
USE_PRECOMPUTED_SCORES == 1
RATE_LIMIT_WINDOW_SIZE_IN_MINUTES == 1

RATE_LIMIT_REQUESTS_PER_USER_PER_MINUTE ==
    [c \in {"SpliceAI: computed", "SpliceAI: total", "liftover: total"} |->
        CASE c = "SpliceAI: computed" -> 4
          [] c = "SpliceAI: total" -> 20
          [] c = "liftover: total" -> 12]

\* the window in clock quanta: RATE_LIMIT_WINDOW_SIZE_IN_MINUTES * 60
Window == RATE_LIMIT_WINDOW_SIZE_IN_MINUTES * 60

-----------------------------------------------------------------------------
(* Strings as sequences of characters.                                     *)

Digits == <<"0", "1", "2", "3", "4", "5", "6", "7", "8", "9">>
DigitSet == {Digits[i] : i \in 1..10}

DigitVal(c) == (CHOOSE i \in 1..10 : Digits[i] = c) - 1

RECURSIVE StrToInt(_)
\* int(s) for a string of decimal digits
StrToInt(s) ==
    IF s = <<>> THEN 0
    ELSE 10 * StrToInt(SubSeq(s, 1, Len(s) - 1)) + DigitVal(s[Len(s)])

RECURSIVE IntToStr(_)
\* str(n) for n >= 0
IntToStr(n) ==
    IF n < 10 THEN <<Digits[n + 1]>>
    ELSE IntToStr(n \div 10) \o <<Digits[(n % 10) + 1]>>

\* the number of leading characters of s, from index i on, that lie in class,
\* at most max of them: a greedy quantifier's first try
Run(s, i, class, max) ==
    LET ok(n) == \A k \in 0..(n - 1) : s[i + k] \in class
        top == IF Len(s) - i + 1 < max THEN Len(s) - i + 1 ELSE max
    IN  IF top <= 0 THEN 0
        ELSE CHOOSE n \in 0..top : ok(n) /\ (n = top \/ ~ok(n + 1))

RECURSIVE StripChars(_, _)
\* str.strip(chars): drops the leading and trailing characters that lie in chars
StripChars(s, chars) ==
    IF s = <<>> THEN s
    ELSE IF s[1] \in chars THEN StripChars(Tail(s), chars)
    ELSE IF s[Len(s)] \in chars THEN StripChars(SubSeq(s, 1, Len(s) - 1), chars)
    ELSE s

Whitespace == {" ", "\t"}

-----------------------------------------------------------------------------
(* The variant parser.                                                     *)

ChromClass == DigitSet \cup {"X", "Y", "M", "T", "t"}        \* [0-9XYMTt]
SepClass == {"-", ":"} \cup Whitespace                       \* [-\s:]
AltSepClass == SepClass \cup {">"}                           \* [-\s:>]
BaseClass == {"A", "C", "G", "T"}                            \* [ACGT]

NoMatch == [matched |-> FALSE]

\* the index after the greedy run of class that starts at index j
After(s, j, class, max) == j + Run(s, j, class, max)

\* The groups of a match whose parts end before j1 (chromosome), j2
\* (separators), j3 (position), j4 (separators), j5 (ref), j6 (separators)
\* and j7 (alt); every part but the optional prefix must be non-empty.
VARIANT_RE_groups(s, i, j1, j2, j3, j4, j5, j6, j7) ==
    IF j2 > j1 /\ j3 > j2 /\ j4 > j3 /\ j5 > j4 /\ j6 > j5 /\ j7 > j6
    THEN [matched |-> TRUE,
          chrom |-> SubSeq(s, i, j1 - 1),
          pos |-> SubSeq(s, j2, j3 - 1),
          ref |-> SubSeq(s, j4, j5 - 1),
          alt |-> SubSeq(s, j6, j7 - 1)]
    ELSE NoMatch

\* (?P<alt>[ACGT]+)
VARIANT_RE_alt(s, i, j1, j2, j3, j4, j5, j6) ==
    VARIANT_RE_groups(s, i, j1, j2, j3, j4, j5, j6, After(s, j6, BaseClass, Len(s)))

\* [-\s:>]+
VARIANT_RE_alt_sep(s, i, j1, j2, j3, j4, j5) ==
    VARIANT_RE_alt(s, i, j1, j2, j3, j4, j5, After(s, j5, AltSepClass, Len(s)))

\* (?P<ref>[ACGT]+)
VARIANT_RE_ref(s, i, j1, j2, j3, j4) ==
    VARIANT_RE_alt_sep(s, i, j1, j2, j3, j4, After(s, j4, BaseClass, Len(s)))

\* [-\s:]+
VARIANT_RE_ref_sep(s, i, j1, j2, j3) ==
    VARIANT_RE_ref(s, i, j1, j2, j3, After(s, j3, SepClass, Len(s)))

\* (?P<pos>[0-9]{1,9})
VARIANT_RE_pos(s, i, j1, j2) ==
    VARIANT_RE_ref_sep(s, i, j1, j2, After(s, j2, DigitSet, 9))

\* The rest of VARIANT_RE after the chromosome: the chromosome takes the nc
\* characters from index i.  Each class that follows is disjoint from its
\* neighbour, so the greedy run is the only length that can match; a position
\* of more than nine digits leaves a digit where a separator must stand.
VARIANT_RE_tail(s, i, nc) ==
    VARIANT_RE_pos(s, i, i + nc, After(s, i + nc, SepClass, Len(s)))

\* the regex engine's backtracking: the first alternative that matches
FirstMatch(first, second) == IF first.matched THEN first ELSE second

\* (?P<chrom>[0-9XYMTt]{1,2}) from index i: two characters first, then one
VARIANT_RE_chrom(s, i) ==
    FirstMatch(IF Run(s, i, ChromClass, 2) = 2 THEN VARIANT_RE_tail(s, i, 2) ELSE NoMatch,
               IF Run(s, i, ChromClass, 2) >= 1 THEN VARIANT_RE_tail(s, i, 1) ELSE NoMatch)

\* VARIANT_RE.match(s): anchored at the start of s only; (chr)? is tried with
\* the prefix first, then without it
VARIANT_RE_match(s) ==
    FirstMatch(IF Len(s) >= 3 /\ SubSeq(s, 1, 3) = <<"c", "h", "r">>
               THEN VARIANT_RE_chrom(s, 4) ELSE NoMatch,
               VARIANT_RE_chrom(s, 1))

\* lines 116-119: the ValueError, or the four groups with int(pos)
match_groups(match) ==
    IF ~match.matched
    THEN [ok |-> FALSE]
    ELSE [ok |-> TRUE, chrom |-> match.chrom, pos |-> StrToInt(match.pos),
          ref |-> match.ref, alt |-> match.alt]

\* parse_variant
parse_variant(variant_str) == match_groups(VARIANT_RE_match(variant_str))

-----------------------------------------------------------------------------
(* The world the server runs in: its clients, its workers, and the data    *)
(* the process loads at start-up.                                          *)

Users == {"10.0.0.1", "10.0.0.2"}        \* request.remote_addr
Procs == {1, 2}                          \* the workers handling requests

RequestTypes == DOMAIN RATE_LIMIT_REQUESTS_PER_USER_PER_MINUTE

\* Interval(TX_START, TX_END + 0.1, NAME), in tenths so that the end is exact
Interval(TX_START, TX_END, NAME) ==
    [begin |-> TX_START * 10, end |-> TX_END * 10 + 1, data |-> NAME]

\* the annotation tables: one gene on chromosome 8 per build, and one on
\* chromosome X of GRCh38
ANNOTATION_INTERVAL_TREES(genome_version, chrom) ==
    IF genome_version = <<"3", "8">> /\ chrom = <<"8">>
    THEN {Interval(3, 7, "WRGL4")}
    ELSE IF genome_version = <<"3", "8">> /\ chrom = <<"X">>
    THEN {Interval(3, 7, "WRGL4")}
    ELSE IF genome_version = <<"3", "7">> /\ chrom = <<"8">>
    THEN {Interval(8, 9, "GENE2")}
    ELSE {}                              \* defaultdict(IntervalTree)

\* the intervals a tree built without the 0.1 would return: TX_END left out
At_half_open(tree, pos) == {i \in tree : i.begin <= pos * 10 /\ pos * 10 < i.end - 1}

\* IntervalTree.at(pos): the intervals with begin <= pos < end
At(tree, pos) == {i \in tree : i.begin <= pos * 10 /\ pos * 10 < i.end}

\* A score string "ALLELE|SYMBOL|DS_AG|DS_AL|DS_DG|DS_DL|DP_AG|DP_AL|DP_DG|DP_DL"
\* is the sequence of its "|"-separated fields (SPLICEAI_SCORE_FIELDS); a DS
\* field is the number of hundredths its two-decimal text denotes.
ScoreString(allele, symbol, ds, dp) == <<allele, symbol>> \o ds \o dp

\* the precomputed score files opened at start-up (the test-data branch):
\* partition |-> the file's VCF lines in file order
SPLICEAI_CACHE_FILES ==
    [k \in {<<"raw", "indel", "hg38">>, <<"raw", "snv", "hg38">>, <<"masked", "snv", "hg38">>} |->
        CASE k = <<"raw", "snv", "hg38">> ->
                <<[chrom |-> <<"8">>, pos |-> 5, ref |-> <<"C">>, alt |-> <<"G">>,
                  info |-> ScoreString("SpliceAI=G", "WRGL4", <<0, 0, 12, 0>>, <<-1, -37, 2, -37>>)],
                 [chrom |-> <<"8">>, pos |-> 5, ref |-> <<"C">>, alt |-> <<"T">>,
                  info |-> ScoreString("SpliceAI=T", "WRGL4", <<3, 0, 0, 0>>, <<4, -1, -1, 9>>)],
                 [chrom |-> <<"8">>, pos |-> 6, ref |-> <<"A">>, alt |-> <<"G">>,
                  info |-> ScoreString("SpliceAI=G", "WRGL4", <<0, 7, 0, 0>>, <<1, 1, 1, 1>>)]>>
          [] k = <<"masked", "snv", "hg38">> ->
                <<[chrom |-> <<"8">>, pos |-> 5, ref |-> <<"C">>, alt |-> <<"G">>,
                  info |-> ScoreString("SpliceAI=G", "WRGL4", <<0, 0, 0, 0>>, <<-1, -37, 2, -37>>)]>>
          [] k = <<"raw", "indel", "hg38">> ->
                <<[chrom |-> <<"8">>, pos |-> 4, ref |-> <<"T">>, alt |-> <<"T", "A">>,
                  info |-> ScoreString("SpliceAI=TA", "WRGL4", <<0, 0, 0, 5>>, <<2, 2, 2, 2>>)]>>]

\* TabixFile.fetch(chrom, pos-1, pos+1): the lines whose 0-based position lies
\* in [pos-1, pos+1), i.e. the 1-based positions pos and pos+1; an unknown
\* contig raises
fetch(file, chrom, start, end) ==
    LET InRegion(line) == line.chrom = chrom /\ start <= line.pos - 1 /\ line.pos - 1 < end
    IN  IF \A i \in 1..Len(file) : file[i].chrom # chrom
        THEN [raised |-> TRUE, lines |-> <<>>]
        ELSE [raised |-> FALSE, lines |-> SelectSeq(file, InRegion)]

\* get_delta_scores(record, annotator, distance, mask): the scoring model, a
\* function of its arguments.  It raises on a negative distance, returns no
\* score at the last base of the gene, and one score per transcript otherwise.
get_delta_scores(record, genome_version, spliceai_distance, spliceai_mask) ==
    IF spliceai_distance < 0
    THEN [raised |-> TRUE, scores |-> <<>>]
    ELSE IF record.pos = 7
    THEN [raised |-> FALSE, scores |-> <<>>]
    ELSE [raised |-> FALSE,
          scores |-> <<ScoreString(record.alt, "WRGL4",
                                   <<IF spliceai_mask = 1 THEN 0 ELSE 25, 0, record.pos, 0>>,
                                   <<-2, spliceai_distance, 3, -4>>)>>]

-----------------------------------------------------------------------------
(* Python values.                                                          *)

\* dict.update: d2's entries win
Update(d1, d2) ==
    [k \in DOMAIN d1 \cup DOMAIN d2 |-> IF k \in DOMAIN d2 THEN d2[k] ELSE d1[k]]

\* dict.get(k, default)
Get(d, k, default) == IF k \in DOMAIN d THEN d[k] ELSE default

\* int(s): an optional sign and then digits only, or the ValueError
ParseInt(s) ==
    LET body == IF s # <<>> /\ s[1] \in {"-", "+"} THEN Tail(s) ELSE s
    IN  IF body = <<>> \/ \E i \in 1..Len(body) : body[i] \notin DigitSet
        THEN [ok |-> FALSE, val |-> 0]
        ELSE [ok |-> TRUE,
              val |-> IF s[1] = "-" THEN 0 - StrToInt(body) ELSE StrToInt(body)]

\* str(n) for any integer
FormatInt(n) == IF n < 0 THEN <<"-">> \o IntToStr(0 - n) ELSE IntToStr(n)

\* json.dumps / json.loads: a dict becomes a JSON text and back; a payload that
\* is no JSON text makes json.loads raise
json_dumps(d) == [json |-> d]
json_loads(text) ==
    IF "json" \in DOMAIN text THEN [raised |-> FALSE, value |-> text.json]
    ELSE [raised |-> TRUE, value |-> <<>>]

\* an interpolated message: the f-string's name and the values put into it
Msg(text, args) == [text |-> text, args |-> args]

\* error_response(error_message)
error_response(error_message) == [status |-> 400, body |-> [error |-> error_message]]

-----------------------------------------------------------------------------
(* Redis.  The rate-limit markers and the cached results live in one       *)
(* database; they are kept in two maps because no key of one kind can be   *)
(* taken for the other: a marker key starts with "request ", a liftover    *)
(* key with "liftover_hg", and a scoring key is only ever written for a    *)
(* descriptor that VARIANT_RE matched from its first character.            *)

NoTTL == 0 - 1

\* the key f"request {user_id} {request_type}: {epoch_time}"
MarkerKey(user_id, request_type, epoch_time) ==
    [user |-> user_id, rtype |-> request_type, ts |-> epoch_time]

\* REDIS.keys(f"request {user_id} {request_type}*")
REDIS_keys(store, user_id, request_type) ==
    {k \in DOMAIN store : k.user = user_id /\ k.rtype = request_type}

\* REDIS.set(key, 1): creates or overwrites the key and discards its TTL
REDIS_set(store, key, value) ==
    [k \in DOMAIN store \cup {key} |-> IF k = key THEN value ELSE store[k]]

\* REDIS.expire(key, seconds)
REDIS_expire(store, key, seconds, clock) ==
    IF key \in DOMAIN store THEN [store EXCEPT ![key] = clock + seconds] ELSE store

\* what Redis keeps at time clock: a key is gone once its deadline has passed
Purge(store, clock) ==
    [k \in {x \in DOMAIN store : store[x] = NoTTL \/ store[x] > clock} |-> store[k]]

-----------------------------------------------------------------------------
(* exceeds_rate_limit, cut at its three Redis operations.                  *)

max_requests(request_type) ==
    RATE_LIMIT_WINDOW_SIZE_IN_MINUTES * RATE_LIMIT_REQUESTS_PER_USER_PER_MINUTE[request_type]

\* the ceiling taken as the last count still admitted
limit_exceeded(keys, request_type) == Cardinality(keys) > max_requests(request_type)

\* len(keys) >= max_requests
limit_reached(keys, request_type) == Cardinality(keys) >= max_requests(request_type)

\* the rate-limit messages of run_spliceai, process_variant and run_liftover
RateLimitMessage(request_type) ==
    Msg("ERROR: Rate limit reached", <<request_type, RATE_LIMIT_REQUESTS_PER_USER_PER_MINUTE[request_type]>>)

-----------------------------------------------------------------------------
(* The scoring endpoint: the cache functions and process_variant.          *)

\* f"{variant}__hg{genome_version}__d{spliceai_distance}__m{spliceai_mask}__pre{use_precomputed_scores}"
get_spliceai_redis_key(variant, genome_version, spliceai_distance, spliceai_mask, use_precomputed_scores) ==
    variant \o <<"_", "_", "h", "g">> \o genome_version
            \o <<"_", "_", "d">> \o FormatInt(spliceai_distance)
            \o <<"_", "_", "m">> \o FormatInt(spliceai_mask)
            \o <<"_", "_", "p", "r", "e">> \o FormatInt(use_precomputed_scores)

CacheMarker == ":redis"

\* the stored results handed back as they are
get_spliceai_from_redis_untagged(store, up, key) ==
    IF ~up THEN [found |-> FALSE, failed |-> TRUE, results |-> <<>>]
    ELSE IF key \notin DOMAIN store THEN [found |-> FALSE, failed |-> FALSE, results |-> <<>>]
    ELSE [found |-> TRUE, failed |-> FALSE, results |-> json_loads(store[key]).value]

\* the backend's failure handed on as the request's result
get_spliceai_from_redis_surfacing(store, up, key) ==
    IF ~up THEN [found |-> TRUE, failed |-> TRUE,
                 results |-> [error |-> Msg("Redis error", <<>>)]]
    ELSE IF key \notin DOMAIN store THEN [found |-> FALSE, failed |-> FALSE, results |-> <<>>]
    ELSE LET results == json_loads(store[key]).value
         IN  [found |-> TRUE, failed |-> FALSE,
              results |-> [results EXCEPT !["source"] = Append(@, CacheMarker)]]

\* get_spliceai_from_redis: the stored results with ":redis" appended to their
\* source, or None when the key is absent or the backend or json.loads raises
get_spliceai_from_redis(store, up, key) ==
    IF ~up THEN [found |-> FALSE, failed |-> TRUE, results |-> <<>>]
    ELSE IF key \notin DOMAIN store THEN [found |-> FALSE, failed |-> FALSE, results |-> <<>>]
    ELSE IF json_loads(store[key]).raised THEN [found |-> FALSE, failed |-> TRUE, results |-> <<>>]
    ELSE LET results == json_loads(store[key]).value
         IN  [found |-> TRUE, failed |-> FALSE,
              results |-> [results EXCEPT !["source"] = Append(@, CacheMarker)]]

\* a store that adds the scores to those of the entry it finds
add_spliceai_to_redis_merged(store, up, key, results) ==
    IF ~up THEN store
    ELSE IF key \in DOMAIN store /\ "scores" \in DOMAIN json_loads(store[key]).value
    THEN REDIS_set(store, key,
             json_dumps([results EXCEPT !["scores"] = json_loads(store[key]).value["scores"] \o @]))
    ELSE REDIS_set(store, key, json_dumps(results))

\* add_spliceai_to_redis: the store after REDIS.set(key, json.dumps(results)),
\* unchanged when the backend raises
add_spliceai_to_redis(store, up, key, results) ==
    IF up THEN REDIS_set(store, key, json_dumps(results)) ELSE store

\* the results dict of a failed process_variant
ErrorResults(variant, message) == [variant |-> variant, error |-> message]

\* the results dict built whether or not there is a score
variant_results_unchecked(variant, genome_version, pv, scores, source) ==
    [variant |-> variant,
     genome_version |-> genome_version,
     chrom |-> pv.chrom,
     pos |-> pv.pos,
     ref |-> pv.ref,
     alt |-> pv.alt,
     scores |-> [i \in 1..Len(scores) |-> Tail(scores[i])],
     source |-> <<source>>]

\* lines 284-302: no score is an error; else the allele field is dropped from
\* every score and the results dict is built
variant_results(variant, genome_version, pv, scores, source) ==
    IF scores = <<>>
    THEN ErrorResults(variant, Msg("ERROR: The SpliceAI model did not return any scores", <<variant>>))
    ELSE [variant |-> variant,
          genome_version |-> genome_version,
          chrom |-> pv.chrom,
          pos |-> pv.pos,
          ref |-> pv.ref,
          alt |-> pv.alt,
          scores |-> [i \in 1..Len(scores) |-> Tail(scores[i])],
          source |-> <<source>>]

\* lines 239: whether the precomputed files are consulted
lookup_eligible(ref, alt, spliceai_distance, use_precomputed_scores) ==
    /\ (Len(ref) <= 5 \/ Len(alt) <= 2)
    /\ spliceai_distance = SPLICEAI_DEFAULT_DISTANCE
    /\ use_precomputed_scores = 1

\* the INFO fields of every line the range query returns
lookup_scores_unfiltered(pv, genome_version, spliceai_mask) ==
    LET key == <<IF spliceai_mask = 1 THEN "masked" ELSE "raw",
                 IF Len(pv.ref) = 1 /\ Len(pv.alt) = 1 THEN "snv" ELSE "indel",
                 IF genome_version = <<"3", "7">> THEN "hg19" ELSE "hg38">>
    IN  IF key \notin DOMAIN SPLICEAI_CACHE_FILES THEN <<>>
        ELSE LET results == fetch(SPLICEAI_CACHE_FILES[key], pv.chrom, pv.pos - 1, pv.pos + 1)
             IN  IF results.raised THEN <<>>
                 ELSE [i \in 1..Len(results.lines) |-> results.lines[i].info]

\* lines 241-258: the INFO fields of the lines that equal the variant in
\* chromosome, position, ref and alt; none when the partition is missing or
\* the fetch raises
lookup_scores(pv, genome_version, spliceai_mask) ==
    LET key == <<IF spliceai_mask = 1 THEN "masked" ELSE "raw",
                 IF Len(pv.ref) = 1 /\ Len(pv.alt) = 1 THEN "snv" ELSE "indel",
                 IF genome_version = <<"3", "7">> THEN "hg19" ELSE "hg38">>
        Same(line) == line.chrom = pv.chrom /\ line.pos = pv.pos
                      /\ line.ref = pv.ref /\ line.alt = pv.alt
    IN  IF key \notin DOMAIN SPLICEAI_CACHE_FILES THEN <<>>
        ELSE LET results == fetch(SPLICEAI_CACHE_FILES[key], pv.chrom, pv.pos - 1, pv.pos + 1)
                 hits == SelectSeq(results.lines, Same)
             IN  IF results.raised THEN <<>>
                 ELSE [i \in 1..Len(hits) |-> hits[i].info]

\* the test taken for line 201 by a reader who counts a two-base allele as simple
is_long_indel(ref, alt) == Len(ref) > 2 /\ Len(alt) > 2

\* line 201: len(ref) > 1 and len(alt) > 1
is_complex_indel(ref, alt) == Len(ref) > 1 /\ Len(alt) > 1

OTHER_GENOME_VERSION(genome_version) ==
    IF genome_version = <<"3", "7">> THEN <<"3", "8">> ELSE <<"3", "7">>

\* lines 246-260, on the scores the precomputed files gave: settled by them, or
\* on to the computed path
process_variant_scores(variant, genome_version, pv, scores) ==
    IF scores # <<>>
    THEN [settled |-> TRUE, stages |-> <<"parse", "validate", "precomputed-fetch">>,
          results |-> variant_results(variant, genome_version, pv, scores, "lookup")]
    ELSE [settled |-> FALSE, stages |-> <<"parse", "validate", "precomputed-fetch">>,
          results |-> <<>>]

\* lines 211-226: the error of a variant outside every transcript of its build
outside_genes_error(variant, genome_version, pv, other_genome_version, other_genome_overlapping_intervals) ==
    IF other_genome_overlapping_intervals # {}
    THEN ErrorResults(variant,
             Msg("ERROR: falls outside all gencode exons and introns; perhaps not the correct genome version",
                 <<genome_version, pv.chrom, pv.pos, pv.ref, pv.alt, other_genome_version,
                   {i.data : i \in other_genome_overlapping_intervals}>>))
    ELSE ErrorResults(variant,
             Msg("ERROR: falls outside all Gencode exons and introns",
                 <<pv.chrom, pv.pos, pv.ref, pv.alt, genome_version>>))

\* process_variant from line 193 to line 260, on the outcome pv of parse_variant
process_variant_parsed(variant, genome_version, spliceai_distance, spliceai_mask, use_precomputed_scores, pv) ==
    IF ~pv.ok
    THEN [settled |-> TRUE, stages |-> <<"parse">>,
          results |-> ErrorResults(variant, Msg("ERROR: Unable to parse variant", <<variant>>))]
    ELSE IF is_complex_indel(pv.ref, pv.alt)
    THEN [settled |-> TRUE, stages |-> <<"parse">>,
          results |-> ErrorResults(variant,
              Msg("ERROR: SpliceAI does not currently support complex InDels",
                  <<pv.chrom, pv.pos, pv.ref, pv.alt>>))]
    ELSE IF At(ANNOTATION_INTERVAL_TREES(genome_version, pv.chrom), pv.pos) = {}
    THEN [settled |-> TRUE, stages |-> <<"parse", "validate">>,
          results |-> outside_genes_error(variant, genome_version, pv,
                          OTHER_GENOME_VERSION(genome_version),
                          At(ANNOTATION_INTERVAL_TREES(OTHER_GENOME_VERSION(genome_version), pv.chrom),
                             pv.pos))]
    ELSE IF ~lookup_eligible(pv.ref, pv.alt, spliceai_distance, use_precomputed_scores)
    THEN [settled |-> FALSE, stages |-> <<"parse", "validate">>, results |-> <<>>]
    ELSE process_variant_scores(variant, genome_version, pv,
             lookup_scores(pv, genome_version, spliceai_mask))

\* process_variant up to line 260: the results when the variant is settled
\* without the model, or the request to go on to the computed path
process_variant_lookup(variant, genome_version, spliceai_distance, spliceai_mask, use_precomputed_scores) ==
    process_variant_parsed(variant, genome_version, spliceai_distance, spliceai_mask,
                           use_precomputed_scores, parse_variant(variant))

\* lines 276-302: the results of the model's answer
process_variant_computed(variant, genome_version, pv, out) ==
    IF out.raised
    THEN ErrorResults(variant, Msg("ERROR: exception in get_delta_scores", <<>>))
    ELSE variant_results(variant, genome_version, pv, out.scores, "computed")

\* lines 269-275: the model is invoked on the VariantRecord
process_variant_record(variant, genome_version, spliceai_distance, spliceai_mask, pv) ==
    process_variant_computed(variant, genome_version, pv,
        get_delta_scores([chrom |-> pv.chrom, pos |-> pv.pos, ref |-> pv.ref, alt |-> pv.alt],
                         genome_version, spliceai_distance, spliceai_mask))

\* process_variant, lines 269-302: the computed path
process_variant_compute(variant, genome_version, spliceai_distance, spliceai_mask) ==
    process_variant_record(variant, genome_version, spliceai_distance, spliceai_mask,
                           parse_variant(variant))

\* run_spliceai, lines 326-360: the parameters checked in the code's order
check_params(params) ==
    LET variant == StripChars(StripChars(StripChars(StripChars(
                       Get(params, "variant", <<>>), Whitespace), {"'"}), {"\""}), {","})
        genome_version == Get(params, "hg", <<>>)
        distance == IF "distance" \in DOMAIN params THEN ParseInt(params["distance"])
                    ELSE [ok |-> TRUE, val |-> SPLICEAI_DEFAULT_DISTANCE]
        spliceai_mask == Get(params, "mask", FormatInt(SPLICEAI_DEFAULT_MASK))
        use_precomputed_scores == Get(params, "precomputed", FormatInt(USE_PRECOMPUTED_SCORES))
        Bad(message) == [ok |-> FALSE, error |-> message]
    IN  IF variant = <<>> THEN Bad(Msg("\"variant\" not specified", <<>>))
        ELSE IF genome_version = <<>> THEN Bad(Msg("\"hg\" not specified", <<>>))
        ELSE IF genome_version \notin {<<"3", "7">>, <<"3", "8">>}
        THEN Bad(Msg("Invalid \"hg\" value", <<genome_version>>))
        ELSE IF ~distance.ok THEN Bad(Msg("Invalid \"distance\": must be an integer", <<params["distance"]>>))
        ELSE IF distance.val > SPLICEAI_MAX_DISTANCE_LIMIT
        THEN Bad(Msg("Invalid \"distance\": must be < limit", <<distance.val, SPLICEAI_MAX_DISTANCE_LIMIT>>))
        ELSE IF spliceai_mask \notin {<<"0">>, <<"1">>}
        THEN Bad(Msg("Invalid \"mask\" value", <<spliceai_mask>>))
        ELSE IF use_precomputed_scores \notin {<<"0">>, <<"1">>}
        THEN Bad(Msg("Invalid \"precomputed\" value", <<use_precomputed_scores>>))
        ELSE [ok |-> TRUE,
              variant |-> variant,
              genome_version |-> genome_version,
              spliceai_distance |-> distance.val,
              spliceai_mask |-> StrToInt(spliceai_mask),
              use_precomputed_scores |-> StrToInt(use_precomputed_scores)]

\* run_spliceai, lines 374-387: the response built from the results
spliceai_response(params, results, duration) ==
    [status |-> IF "error" \in DOMAIN results THEN 400 ELSE 200,
     body |-> Update(Update(params, results), [duration |-> duration])]

-----------------------------------------------------------------------------
(* The liftover endpoint.                                                  *)

HG19_TO_HG38 == <<"h", "g", "1", "9", "-", "t", "o", "-", "h", "g", "3", "8">>
HG38_TO_HG19 == <<"h", "g", "3", "8", "-", "t", "o", "-", "h", "g", "1", "9">>
HG38_TO_T2T == <<"h", "g", "3", "8", "-", "t", "o", "-", "t", "2", "t">>
T2T_TO_HG38 == <<"t", "2", "t", "-", "t", "o", "-", "h", "g", "3", "8">>

\* CHAIN_FILE_PATHS.keys()
CHAIN_FILE_PATHS == {HG19_TO_HG38, HG38_TO_HG19, HG38_TO_T2T, T2T_TO_HG38}

REVERSE_COMPLEMENT_MAP ==
    [n \in {"A", "C", "G", "T", "N"} |->
        CASE n = "A" -> "T" [] n = "C" -> "G" [] n = "G" -> "C" [] n = "T" -> "A" [] n = "N" -> "N"]

\* "".join([REVERSE_COMPLEMENT_MAP[n] for n in seq[::-1]])
reverse_complement(seq) ==
    [i \in 1..Len(seq) |-> REVERSE_COMPLEMENT_MAP[seq[Len(seq) + 1 - i]]]

\* whether reverse_complement raises the KeyError
complementable(seq) == \A i \in 1..Len(seq) : seq[i] \in DOMAIN REVERSE_COMPLEMENT_MAP

RECURSIVE without_chr(_)
\* chrom.replace("chr", "")
without_chr(chrom) ==
    IF Len(chrom) < 3 THEN chrom
    ELSE IF SubSeq(chrom, 1, 3) = <<"c", "h", "r">> THEN without_chr(SubSeq(chrom, 4, Len(chrom)))
    ELSE <<chrom[1]>> \o without_chr(Tail(chrom))

\* an unplaced contig of chromosome 8, named like chr8_gl000196_random
CHR8_RANDOM == <<"c", "h", "r", "8", "_", "r">>

\* The liftOver binary on one BED record: "mapped" with the output record's
\* fields, "unmapped" with the reason it writes to the unmapped file (a record
\* of chr8 beyond the chain, or of a chromosome the chain does not hold), or
\* "failed" when it exits non-zero on a record it cannot read.
liftOver(hg, chrom, start_text, end_text) ==
    LET start == ParseInt(start_text)
        end == ParseInt(end_text)
    IN  IF ~start.ok \/ ~end.ok \/ start.val < 0 \/ end.val <= start.val
        THEN [outcome |-> "failed", fields |-> <<>>, reason |-> ""]
        ELSE IF chrom = CHR8_RANDOM /\ end.val <= 20 /\ hg = HG19_TO_HG38
        THEN [outcome |-> "mapped",
              fields |-> <<chrom, FormatInt(start.val + 300), FormatInt(end.val + 300), ".", "0", <<"+">>>>,
              reason |-> ""]
        ELSE IF chrom = <<"c", "h", "r", "8">> /\ end.val <= 20 /\ hg = HG19_TO_HG38
        THEN [outcome |-> "mapped",
              fields |-> <<chrom, FormatInt(start.val + 100), FormatInt(end.val + 100), ".", "0", <<"+">>>>,
              reason |-> ""]
        ELSE IF chrom = <<"c", "h", "r", "8">> /\ end.val <= 20 /\ hg = HG38_TO_HG19
        THEN [outcome |-> "mapped",
              fields |-> <<chrom, FormatInt(500 - end.val), FormatInt(500 - start.val), ".", "0", <<"-">>>>,
              reason |-> ""]
        ELSE IF chrom = <<"c", "h", "r", "8">>
        THEN [outcome |-> "unmapped", fields |-> <<>>, reason |-> "Deleted in new"]
        ELSE [outcome |-> "unmapped", fields |-> <<>>, reason |-> ""]

\* the tool's output read back without the unmapped file
liftover_tool_result_unread(hg, chr_chrom, start, end, start_text, end_text, out) ==
    IF out.outcome = "failed"
    THEN [raised |-> TRUE,
          error |-> Msg("liftOver command failed", <<hg, chr_chrom, start_text, end_text>>)]
    ELSE IF out.outcome = "mapped" /\ Len(out.fields) > 5
    THEN [raised |-> FALSE,
          result |-> [chrom |-> chr_chrom,
                      start |-> start,
                      end |-> end,
                      output_chrom |-> out.fields[1],
                      output_start |-> StrToInt(out.fields[2]),
                      output_end |-> StrToInt(out.fields[3]),
                      output_strand |-> out.fields[6]]]
    ELSE [raised |-> TRUE,
          error |-> Msg("liftover failed for unknown reasons", <<hg, chr_chrom, start_text, end_text>>)]

\* lines 418-445: the tool's output read back: the mapped interval, or the
\* ValueError with the reason of the unmapped file
liftover_tool_result(hg, chr_chrom, start, end, start_text, end_text, out) ==
    IF out.outcome = "failed"
    THEN [raised |-> TRUE,
          error |-> Msg("liftOver command failed", <<hg, chr_chrom, start_text, end_text>>)]
    ELSE IF out.outcome = "mapped" /\ Len(out.fields) > 5
    THEN [raised |-> FALSE,
          result |-> [chrom |-> chr_chrom,
                      start |-> start,
                      end |-> end,
                      output_chrom |-> out.fields[1],
                      output_start |-> StrToInt(out.fields[2]),
                      output_end |-> StrToInt(out.fields[3]),
                      output_strand |-> out.fields[6]]]
    ELSE IF out.reason # ""
    THEN [raised |-> TRUE,
          error |-> Msg("liftover failed", <<hg, chr_chrom, start_text, end_text, out.reason>>)]
    ELSE [raised |-> TRUE,
          error |-> Msg("liftover failed for unknown reasons", <<hg, chr_chrom, start_text, end_text>>)]

\* lines 411-417: the BED record of "chr" + chrom.replace("chr", "") is run
\* through liftOver
liftover_tool_run(hg, chr_chrom, start, end, start_text, end_text) ==
    liftover_tool_result(hg, chr_chrom, start, end, start_text, end_text,
                         liftOver(hg, chr_chrom, start_text, end_text))

\* run_UCSC_liftover_tool: the mapped interval, or the ValueError it raises.
\* start and end are written to the BED file by str(): start_text, end_text.
run_UCSC_liftover_tool(hg, chrom, start, end, start_text, end_text) ==
    liftover_tool_run(hg, <<"c", "h", "r">> \o without_chr(chrom), start, end, start_text, end_text)

\* f"liftover_hg{genome_version}__{chrom}_{start}_{end}"
get_liftover_redis_key(genome_version, chrom, start_text, end_text) ==
    <<"l", "i", "f", "t", "o", "v", "e", "r", "_", "h", "g">> \o genome_version
        \o <<"_", "_">> \o chrom \o <<"_">> \o start_text \o <<"_">> \o end_text

\* get_liftover_from_redis
get_liftover_from_redis(store, up, key) ==
    IF ~up THEN [found |-> FALSE, failed |-> TRUE, result |-> <<>>]
    ELSE IF key \notin DOMAIN store THEN [found |-> FALSE, failed |-> FALSE, result |-> <<>>]
    ELSE IF json_loads(store[key]).raised THEN [found |-> FALSE, failed |-> TRUE, result |-> <<>>]
    ELSE [found |-> TRUE, failed |-> FALSE, result |-> json_loads(store[key]).value]

\* add_liftover_to_redis
add_liftover_to_redis(store, up, key, result) ==
    IF up THEN REDIS_set(store, key, json_dumps(result)) ELSE store

VALID_FORMAT_VALUES == {"interval", "variant", "position"}

\* run_liftover, lines 494-528: the parameters checked in the code's order.
\* "crashed" is the ValueError of int(pos), which no handler catches.
check_liftover_params(params) ==
    LET hg == Get(params, "hg", <<>>)
        format == Get(params, "format", "")
        chrom == Get(params, "chrom", <<>>)
        Bad(message) == [ok |-> FALSE, crashed |-> FALSE, error |-> message]
    IN  IF hg = <<>> \/ hg \notin CHAIN_FILE_PATHS THEN Bad(Msg("\"hg\" param error", <<>>))
        ELSE IF format = "" \/ format \notin VALID_FORMAT_VALUES THEN Bad(Msg("\"format\" param error", <<>>))
        ELSE IF chrom = <<>> THEN Bad(Msg("\"chrom\" param not specified", <<>>))
        ELSE IF format = "interval"
        THEN IF Get(params, "start", <<>>) = <<>> THEN Bad(Msg("\"start\" param not specified", <<>>))
             ELSE IF Get(params, "end", <<>>) = <<>> THEN Bad(Msg("\"end\" param not specified", <<>>))
             ELSE [ok |-> TRUE, hg |-> hg, format |-> format, chrom |-> chrom, pos |-> 0,
                   start |-> params["start"], end |-> params["end"],
                   start_text |-> params["start"], end_text |-> params["end"]]
        ELSE IF Get(params, "pos", <<>>) = <<>> THEN Bad(Msg("\"pos\" param not specified", <<>>))
        ELSE IF ~ParseInt(params["pos"]).ok THEN [ok |-> FALSE, crashed |-> TRUE, error |-> <<>>]
        ELSE LET pos == ParseInt(params["pos"]).val
             IN  [ok |-> TRUE, hg |-> hg, format |-> format, chrom |-> chrom, pos |-> pos,
                  start |-> pos - 1, end |-> pos,
                  start_text |-> FormatInt(pos - 1), end_text |-> FormatInt(pos)]

InternalServerError == [status |-> 500, body |-> [error |-> Msg("Internal Server Error", <<>>)]]

\* run_liftover, lines 547-559: the request's parameters are written over the
\* result, the position and the alleles are derived, and the result is the
\* response.  A "variant" request without ref or alt, or with an allele that
\* REVERSE_COMPLEMENT_MAP does not hold, ends in an uncaught KeyError.
liftover_response(params, args, result) ==
    LET merged == Update(result, params)
        with_pos == IF args.format \in {"position", "variant"}
                    THEN Update(merged, [pos |-> args.pos, output_pos |-> merged["output_end"]])
                    ELSE merged
    IN  IF args.format # "variant" THEN [status |-> 200, body |-> with_pos]
        ELSE IF "ref" \notin DOMAIN with_pos \/ "alt" \notin DOMAIN with_pos THEN InternalServerError
        ELSE IF with_pos["output_strand"] = <<"-">>
        THEN IF ~complementable(with_pos["ref"]) \/ ~complementable(with_pos["alt"])
             THEN InternalServerError
             ELSE [status |-> 200,
                   body |-> Update(with_pos, [output_ref |-> reverse_complement(with_pos["ref"]),
                                              output_alt |-> reverse_complement(with_pos["alt"])])]
        ELSE [status |-> 200,
              body |-> Update(with_pos, [output_ref |-> with_pos["ref"], output_alt |-> with_pos["alt"]])]

-----------------------------------------------------------------------------
(* The test client (src/TestingDocker.py).                                 *)

\* SPLICEAI_SCORE_FIELDS without the allele: the fields of a response's score
SCORE_FIELDS == <<"SYMBOL", "DS_AG", "DS_AL", "DS_DG", "DS_DL", "DP_AG", "DP_AL", "DP_DG", "DP_DL">>

\* score[name]
ScoreField(score, name) == score[CHOOSE i \in 1..Len(SCORE_FIELDS) : SCORE_FIELDS[i] = name]

DS_COLS == <<"DS_AG", "DS_AL", "DS_DG", "DS_DL">>
DP_COLS == <<"DP_AG", "DP_AL", "DP_DG", "DP_DL">>

NaN == [nan |-> TRUE, val |-> 0]
Num(n) == [nan |-> FALSE, val |-> n]

\* the row filled without the NaN rule
update_dataframe_keeps_dp(score) ==
    [ds |-> [i \in 1..4 |-> ScoreField(score, DS_COLS[i])],
     dp |-> [i \in 1..4 |-> Num(ScoreField(score, DP_COLS[i]))]]
\* update_dataframe_with_scores, lines 70-85: the row's DS and DP cells; a DP
\* cell is NaN when its DS cell is 0.00
update_dataframe_with_scores(score) ==
    [ds |-> [i \in 1..4 |-> ScoreField(score, DS_COLS[i])],
     dp |-> [i \in 1..4 |-> IF ScoreField(score, DS_COLS[i]) = 0
                            THEN NaN
                            ELSE Num(ScoreField(score, DP_COLS[i]))]]

\* lines 137-141: the first score of the response whose SYMBOL has 'WRGL4'
ClientScores(body) ==
    IF "scores" \in DOMAIN body
    THEN SelectSeq(body["scores"], LAMBDA score : ScoreField(score, "SYMBOL") = "WRGL4")
    ELSE <<>>

-----------------------------------------------------------------------------
(* The requests the clients send.                                          *)

HG38 == <<"3", "8">>

Requests ==
    << \* 1: an SNV the precomputed files hold
       [kind |-> "spliceai",
        params |-> [variant |-> <<"c", "h", "r", "8", "-", "5", "-", "C", "-", "G">>, hg |-> HG38]],
       \* 2: an SNV the files do not hold: the model scores it
       [kind |-> "spliceai",
        params |-> [variant |-> <<"8", ":", "6", " ", "A", ">", "T">>, hg |-> HG38]],
       \* 3: a complex indel
       [kind |-> "spliceai",
        params |-> [variant |-> <<"8", "-", "5", "-", "C", "A", "-", "G", "T">>, hg |-> HG38]],
       \* 4: a variant for which the model returns no score
       [kind |-> "spliceai",
        params |-> [variant |-> <<"8", "-", "7", "-", "C", "-", "G">>, hg |-> HG38]],
       \* 5: a complex indel sent with a build the server does not know
       [kind |-> "spliceai",
        params |-> [variant |-> <<"8", "-", "5", "-", "C", "A", "-", "G", "T">>, hg |-> <<"3", "9">>]],
       \* 6: a descriptor VARIANT_RE does not match
       [kind |-> "spliceai",
        params |-> [variant |-> <<"x", "-", "5", "-", "A", "-", "G">>, hg |-> HG38]],
       \* 7: a position annotated in the other build only
       [kind |-> "spliceai",
        params |-> [variant |-> <<"8", "-", "9", "-", "C", "-", "G">>, hg |-> HG38]],
       \* 8: a distance on which the model raises
       [kind |-> "spliceai",
        params |-> [variant |-> <<"8", ":", "6", " ", "A", ">", "T">>, hg |-> HG38,
                    distance |-> <<"-", "5">>]],
       \* 9: the masked scores of request 1's variant
       [kind |-> "spliceai",
        params |-> [variant |-> <<"c", "h", "r", "8", "-", "5", "-", "C", "-", "G">>, hg |-> HG38,
                    mask |-> <<"1">>]],
       \* 10: a variant lifted to the forward strand
       [kind |-> "liftover",
        params |-> [hg |-> HG19_TO_HG38, format |-> "variant", chrom |-> <<"c", "h", "r", "8">>,
                    pos |-> <<"5">>, ref |-> <<"A">>, alt |-> <<"G">>]],
       \* 11: a variant lifted to the reverse strand
       [kind |-> "liftover",
        params |-> [hg |-> HG38_TO_HG19, format |-> "variant", chrom |-> <<"8">>,
                    pos |-> <<"5">>, ref |-> <<"A", "C">>, alt |-> <<"G">>]],
       \* 12: request 11 with a parameter named like an output field
       [kind |-> "liftover",
        params |-> [hg |-> HG38_TO_HG19, format |-> "variant", chrom |-> <<"8">>,
                    pos |-> <<"5">>, ref |-> <<"A", "C">>, alt |-> <<"G">>,
                    output_strand |-> <<"+">>]],
       \* 13: the interval of request 10
       [kind |-> "liftover",
        params |-> [hg |-> HG19_TO_HG38, format |-> "interval", chrom |-> <<"c", "h", "r", "8">>,
                    start |-> <<"4">>, end |-> <<"5">>]],
       \* 14: a position the chain does not map
       [kind |-> "liftover",
        params |-> [hg |-> HG19_TO_HG38, format |-> "position", chrom |-> <<"c", "h", "r", "8">>,
                    pos |-> <<"9", "9">>]],
       \* 15: no build pair
       [kind |-> "liftover",
        params |-> [format |-> "variant", chrom |-> <<"c", "h", "r", "8">>, pos |-> <<"5">>]],
       \* 16: a variant without its alleles
       [kind |-> "liftover",
        params |-> [hg |-> HG19_TO_HG38, format |-> "variant", chrom |-> <<"c", "h", "r", "8">>,
                    pos |-> <<"6">>]],
       \* 17: an insertion of two bases: len(ref) = 1, len(alt) = 3
       [kind |-> "spliceai",
        params |-> [variant |-> <<"8", "-", "4", "-", "T", "-", "T", "A", "A">>, hg |-> HG38]],
       \* 18: request 2 with another distance
       [kind |-> "spliceai",
        params |-> [variant |-> <<"8", ":", "6", " ", "A", ">", "T">>, hg |-> HG38,
                    distance |-> <<"6", "0">>]],
       \* 19: request 1 without the precomputed scores
       [kind |-> "spliceai",
        params |-> [variant |-> <<"c", "h", "r", "8", "-", "5", "-", "C", "-", "G">>, hg |-> HG38,
                    precomputed |-> <<"0">>]],
       \* 20: no variant
       [kind |-> "spliceai", params |-> [hg |-> HG38]],
       \* 21: a variant of which strip() leaves nothing
       [kind |-> "spliceai", params |-> [variant |-> <<" ", "'", ",">>, hg |-> HG38]],
       \* 22: no build
       [kind |-> "spliceai",
        params |-> [variant |-> <<"c", "h", "r", "8", "-", "5", "-", "C", "-", "G">>]],
       \* 23: a distance that is no integer
       [kind |-> "spliceai",
        params |-> [variant |-> <<"c", "h", "r", "8", "-", "5", "-", "C", "-", "G">>, hg |-> HG38,
                    distance |-> <<"5", "x">>]],
       \* 24: a distance above the maximum
       [kind |-> "spliceai",
        params |-> [variant |-> <<"c", "h", "r", "8", "-", "5", "-", "C", "-", "G">>, hg |-> HG38,
                    distance |-> <<"1", "0", "0", "0", "1">>]],
       \* 25: a mask that is neither 0 nor 1
       [kind |-> "spliceai",
        params |-> [variant |-> <<"c", "h", "r", "8", "-", "5", "-", "C", "-", "G">>, hg |-> HG38,
                    mask |-> <<"2">>]],
       \* 26: a precomputed flag that is neither 0 nor 1
       [kind |-> "spliceai",
        params |-> [variant |-> <<"c", "h", "r", "8", "-", "5", "-", "C", "-", "G">>, hg |-> HG38,
                    precomputed |-> <<"2">>]],
       \* 27: a position annotated in neither build
       [kind |-> "spliceai",
        params |-> [variant |-> <<"8", "-", "1", "0", "-", "C", "-", "G">>, hg |-> HG38]],
       \* 28: the position after the gene's TX_END
       [kind |-> "spliceai",
        params |-> [variant |-> <<"8", "-", "8", "-", "C", "-", "G">>, hg |-> HG38]],
       \* 29: a chromosome the precomputed files do not hold: fetch raises
       [kind |-> "spliceai",
        params |-> [variant |-> <<"X", "-", "5", "-", "A", "-", "G">>, hg |-> HG38]],
       \* 30: a build for which no precomputed file is open
       [kind |-> "spliceai",
        params |-> [variant |-> <<"8", "-", "8", "-", "C", "-", "G">>, hg |-> <<"3", "7">>]],
       \* 31: an interval of a contig with an underscore in its name
       [kind |-> "liftover",
        params |-> [hg |-> HG19_TO_HG38, format |-> "interval", chrom |-> CHR8_RANDOM,
                    start |-> <<"4">>, end |-> <<"5">>]],
       \* 32: an interval whose chrom, start and end spell request 31's key
       [kind |-> "liftover",
        params |-> [hg |-> HG19_TO_HG38, format |-> "interval", chrom |-> <<"c", "h", "r", "8">>,
                    start |-> <<"r">>, end |-> <<"4", "_", "5">>]],
       \* 33: a JSON body {"variant": 5, "hg": "38"}: the variant is a number
       [kind |-> "spliceai", params |-> [variant |-> <<"5">>, hg |-> HG38],
        nonstr |-> {"variant"}],
       \* 34: an interval for which the tool writes neither a record nor a reason
       [kind |-> "liftover",
        params |-> [hg |-> HG19_TO_HG38, format |-> "interval", chrom |-> <<"9">>,
                    start |-> <<"4">>, end |-> <<"5">>]],
       \* 35: the variant of request 2 written with the prefix and with dashes
       [kind |-> "spliceai",
        params |-> [variant |-> <<"c", "h", "r", "8", "-", "6", "-", "A", "-", "T">>, hg |-> HG38]] >>

\* what the clients of one behaviour of Spec send: one of the requests 1 to
\* 16, or requests 1 and 3
Workloads == {{i} : i \in 1..16} \cup {{1, 3}}

-----------------------------------------------------------------------------
(* The workers.                                                            *)

NoReq == [kind |-> "none", user |-> "", params |-> <<>>,
          nonstr |-> {}]      \* the parameters whose JSON value is no string
NoResp == [status |-> 0, body |-> <<>>]
NoLoc == [rtype |-> "", epoch_time |-> 0, start_time |-> 0,
          counted |-> 0,                              \* len(keys) of the last limiter call
          total |-> "none", computed |-> "none",      \* the limiter's verdicts
          got |-> "none", put |-> "none",             \* how the cache answered
          warm |-> FALSE,                             \* the key had been stored when the cache was read
          invoked |-> FALSE,                          \* get_delta_scores / liftOver was run
          stages |-> <<>>,                            \* the stages the request went through, in order
          args |-> <<>>, key |-> <<>>, results |-> <<>>]
NoDf == [filled |-> FALSE, score |-> <<>>, row |-> <<>>]
NoParse == [called |-> FALSE]

FreshTrail == [ok |-> TRUE, verdicts |-> <<>>]

InitServer ==
    /\ now = 0
    /\ redisUp = TRUE
    /\ nfail = 0
    /\ markers = <<>>
    /\ cache = <<>>
    /\ pc = [p \in Procs |-> "idle"]
    /\ req = [p \in Procs |-> NoReq]
    /\ loc = [p \in Procs |-> NoLoc]
    /\ resp = [p \in Procs |-> NoResp]
    /\ nreq = [u \in Users |-> 0]
    /\ trail = [u \in Users |-> [c \in RequestTypes |-> FreshTrail]]
    /\ orig = <<>>
    /\ owner = <<>>
    /\ df = NoDf

\* the class of a handler's first exceeds_rate_limit call
FirstRequestType(kind) == IF kind = "spliceai" THEN "SpliceAI: total" ELSE "liftover: total"

\* a scoring request whose parameters are checked before the limiter is asked
Start_validated(p, i, u) ==
    /\ pc[p] = "idle"
    /\ req' = [req EXCEPT ![p] = [kind |-> Requests[i].kind, user |-> u, params |-> Requests[i].params,
                                  nonstr |-> Get(Requests[i], "nonstr", {})]]
    /\ loc' = [loc EXCEPT ![p] = [NoLoc EXCEPT !.rtype = FirstRequestType(Requests[i].kind),
                                                !.start_time = now]]
    /\ pc' = [pc EXCEPT ![p] = IF Requests[i].kind = "spliceai" /\ ~check_params(Requests[i].params).ok
                               THEN "s_get" ELSE "rl_keys"]
    /\ nreq' = [nreq EXCEPT ![u] = @ + 1]
    /\ UNCHANGED <<now, redisUp, nfail, markers, cache, resp, trail, orig, owner, burst, pin, pout, df>>

\* a request arrives (run_spliceai lines 306-318, run_liftover lines 476-486)
Start(p, i, u) ==
    /\ pc[p] = "idle"
    /\ req' = [req EXCEPT ![p] = [kind |-> Requests[i].kind, user |-> u, params |-> Requests[i].params,
                                  nonstr |-> Get(Requests[i], "nonstr", {})]]
    /\ loc' = [loc EXCEPT ![p] = [NoLoc EXCEPT !.rtype = FirstRequestType(Requests[i].kind),
                                                !.start_time = now]]
    /\ pc' = [pc EXCEPT ![p] = "rl_keys"]
    /\ nreq' = [nreq EXCEPT ![u] = @ + 1]
    /\ UNCHANGED <<now, redisUp, nfail, markers, cache, resp, trail, orig, owner, burst, pin, pout, df>>

\* another request of the same client is in flight
OthersBusy(p) == \E q \in Procs \ {p} : pc[q] # "idle" /\ req[q].user = req[p].user

\* the history of (user, class) after a verdict; a verdict reached while the
\* backend was down or while another request of the client was in flight
\* does not belong to a clean window
TrailAfter(p, verdict, clean) ==
    [trail EXCEPT ![req[p].user][loc[p].rtype] =
        IF clean /\ @.ok THEN [ok |-> TRUE, verdicts |-> Append(@.verdicts, verdict)]
        ELSE [ok |-> FALSE, verdicts |-> @.verdicts]]

TrailDirty(p) ==
    [trail EXCEPT ![req[p].user][loc[p].rtype] = [ok |-> FALSE, verdicts |-> @.verdicts]]

\* the history after the clock has advanced: a window whose markers are all
\* gone starts afresh, one that lost some of its markers is no clean window
TrailExpire(store) ==
    [u \in Users |-> [c \in RequestTypes |->
        IF REDIS_keys(store, u, c) = {} THEN FreshTrail
        ELSE IF REDIS_keys(store, u, c) # REDIS_keys(markers, u, c)
        THEN [ok |-> FALSE, verdicts |-> trail[u][c].verdicts]
        ELSE trail[u][c]]]

Duration(p) == now - loc[p].start_time

\* process_variant going on to the model whatever the limiter said
AfterLimit_compute_anyway(p, exceeded) ==
    LET verdict == IF exceeded THEN "deny" ELSE "admit"
    IN  IF loc[p].rtype = "SpliceAI: computed"
        THEN [pc |-> "s_compute", loc |-> [loc[p] EXCEPT !.computed = verdict], resp |-> NoResp]
        ELSE [pc |-> IF exceeded THEN "done" ELSE IF loc[p].rtype = "SpliceAI: total" THEN "s_get" ELSE "l_get",
              loc |-> [loc[p] EXCEPT !.total = verdict],
              resp |-> IF exceeded THEN error_response(RateLimitMessage(loc[p].rtype)) ELSE NoResp]

\* where the handler goes on when exceeds_rate_limit has returned `exceeded`
\* (run_spliceai 318-324, process_variant 261-267, run_liftover 486-492)
AfterLimit(p, exceeded) ==
    LET verdict == IF exceeded THEN "deny" ELSE "admit"
    IN  CASE loc[p].rtype = "SpliceAI: total" ->
               [pc |-> IF exceeded THEN "done" ELSE "s_get",
                loc |-> [loc[p] EXCEPT !.total = verdict],
                resp |-> IF exceeded THEN error_response(RateLimitMessage("SpliceAI: total")) ELSE NoResp]
          [] loc[p].rtype = "SpliceAI: computed" ->
               [pc |-> IF exceeded THEN "done" ELSE "s_compute",
                loc |-> [loc[p] EXCEPT !.computed = verdict],
                resp |-> IF exceeded
                         THEN spliceai_response(req[p].params,
                                  ErrorResults(loc[p].args.variant, RateLimitMessage("SpliceAI: computed")),
                                  Duration(p))
                         ELSE NoResp]
          [] loc[p].rtype = "liftover: total" ->
               [pc |-> IF exceeded THEN "done" ELSE "l_get",
                loc |-> [loc[p] EXCEPT !.total = verdict],
                resp |-> IF exceeded THEN error_response(RateLimitMessage("liftover: total")) ELSE NoResp]

Return(p, exceeded, clean) ==
    LET after == AfterLimit(p, exceeded)
    IN  /\ pc' = [pc EXCEPT ![p] = after.pc]
        /\ loc' = [loc EXCEPT ![p] = after.loc]
        /\ resp' = [resp EXCEPT ![p] = after.resp]
        /\ trail' = TrailAfter(p, IF exceeded THEN "deny" ELSE "admit", clean)

\* a limiter that denies when the backend does not answer
RL_keys_closed(p) ==
    /\ pc[p] = "rl_keys"
    /\ IF ~redisUp
       THEN Return(p, TRUE, FALSE)
       ELSE IF limit_reached(REDIS_keys(markers, req[p].user, loc[p].rtype), loc[p].rtype)
       THEN Return(p, TRUE, ~OthersBusy(p))
       ELSE /\ pc' = [pc EXCEPT ![p] = "rl_set"]
            /\ loc' = [loc EXCEPT ![p].epoch_time = now,
                                  ![p].counted = Cardinality(REDIS_keys(markers, req[p].user, loc[p].rtype))]
            /\ trail' = IF OthersBusy(p) THEN TrailDirty(p) ELSE trail
            /\ UNCHANGED resp
    /\ UNCHANGED <<now, redisUp, nfail, markers, cache, req, nreq, orig, owner, burst, pin, pout, df>>

\* exceeds_rate_limit, lines 175-181: the time is read and the keys are counted
RL_keys(p) ==
    /\ pc[p] = "rl_keys"
    /\ IF ~redisUp
       THEN Return(p, FALSE, FALSE)
       ELSE IF limit_reached(REDIS_keys(markers, req[p].user, loc[p].rtype), loc[p].rtype)
       THEN Return(p, TRUE, ~OthersBusy(p))
       ELSE /\ pc' = [pc EXCEPT ![p] = "rl_set"]
            /\ loc' = [loc EXCEPT ![p].epoch_time = now,
                                  ![p].counted = Cardinality(REDIS_keys(markers, req[p].user, loc[p].rtype))]
            /\ trail' = IF OthersBusy(p) THEN TrailDirty(p) ELSE trail
            /\ UNCHANGED resp
    /\ UNCHANGED <<now, redisUp, nfail, markers, cache, req, nreq, orig, owner, burst, pin, pout, df>>

\* the marker set only if the ceiling has not been reached since the count
RL_set_rechecked(p) ==
    /\ pc[p] = "rl_set"
    /\ IF ~redisUp
       THEN Return(p, FALSE, FALSE) /\ UNCHANGED markers
       ELSE IF limit_reached(REDIS_keys(markers, req[p].user, loc[p].rtype), loc[p].rtype)
       THEN Return(p, TRUE, FALSE) /\ UNCHANGED markers
       ELSE /\ markers' = REDIS_set(markers, MarkerKey(req[p].user, loc[p].rtype, loc[p].epoch_time), NoTTL)
            /\ pc' = [pc EXCEPT ![p] = "rl_expire"]
            /\ trail' = IF OthersBusy(p) THEN TrailDirty(p) ELSE trail
            /\ UNCHANGED <<loc, resp>>
    /\ UNCHANGED <<now, redisUp, nfail, cache, req, nreq, orig, owner, burst, pin, pout, df>>

\* line 184: the marker is set
RL_set(p) ==
    /\ pc[p] = "rl_set"
    /\ IF ~redisUp
       THEN Return(p, FALSE, FALSE) /\ UNCHANGED markers
       ELSE /\ markers' = REDIS_set(markers, MarkerKey(req[p].user, loc[p].rtype, loc[p].epoch_time), NoTTL)
            /\ pc' = [pc EXCEPT ![p] = "rl_expire"]
            /\ trail' = IF OthersBusy(p) THEN TrailDirty(p) ELSE trail
            /\ UNCHANGED <<loc, resp>>
    /\ UNCHANGED <<now, redisUp, nfail, cache, req, nreq, orig, owner, burst, pin, pout, df>>

\* lines 185-189: the marker is given its expiry and the request is admitted
RL_expire(p) ==
    /\ pc[p] = "rl_expire"
    /\ IF ~redisUp
       THEN Return(p, FALSE, FALSE) /\ UNCHANGED markers
       ELSE /\ markers' = REDIS_expire(markers, MarkerKey(req[p].user, loc[p].rtype, loc[p].epoch_time),
                                       RATE_LIMIT_WINDOW_SIZE_IN_MINUTES * 60, now)
            /\ Return(p, FALSE, ~OthersBusy(p))
    /\ UNCHANGED <<now, redisUp, nfail, cache, req, nreq, orig, owner, burst, pin, pout, df>>


Respond(p, response, locals) ==
    /\ pc' = [pc EXCEPT ![p] = "done"]
    /\ resp' = [resp EXCEPT ![p] = response]
    /\ loc' = [loc EXCEPT ![p] = locals]

\* how the cache answered a read
Got(cached) == IF cached.failed THEN "fail" ELSE IF cached.found THEN "hit" ELSE "miss"

\* a result of the precomputed files returned without being stored
run_spliceai_processed_unstored(p, locals, first) ==
    IF first.settled
    THEN Respond(p, spliceai_response(req[p].params, first.results, Duration(p)),
                 [locals EXCEPT !.stages = @ \o first.stages])
    ELSE /\ pc' = [pc EXCEPT ![p] = "rl_keys"]
         /\ loc' = [loc EXCEPT ![p] = [locals EXCEPT !.rtype = "SpliceAI: computed",
                                                     !.stages = @ \o first.stages]]
         /\ UNCHANGED resp

\* run_spliceai, lines 370-372, on the outcome of process_variant's first part
run_spliceai_processed(p, locals, first) ==
    IF first.settled /\ "error" \in DOMAIN first.results
    THEN Respond(p, spliceai_response(req[p].params, first.results, Duration(p)),
                 [locals EXCEPT !.stages = @ \o first.stages])
    ELSE IF first.settled
    THEN /\ pc' = [pc EXCEPT ![p] = "s_put"]
         /\ loc' = [loc EXCEPT ![p] = [locals EXCEPT !.results = first.results,
                                                     !.stages = @ \o first.stages]]
         /\ UNCHANGED resp
    ELSE /\ pc' = [pc EXCEPT ![p] = "rl_keys"]
         /\ loc' = [loc EXCEPT ![p] = [locals EXCEPT !.rtype = "SpliceAI: computed",
                                                     !.stages = @ \o first.stages]]
         /\ UNCHANGED resp

\* a cache hit that is put to the computed-class limiter all the same
run_spliceai_cached_counted(p, args, locals, cached) ==
    IF cached.found
    THEN /\ pc' = [pc EXCEPT ![p] = "rl_keys"]
         /\ loc' = [loc EXCEPT ![p] = [locals EXCEPT !.got = Got(cached),
                                                     !.rtype = "SpliceAI: computed"]]
         /\ UNCHANGED resp
    ELSE run_spliceai_processed(p, [locals EXCEPT !.got = Got(cached)],
             process_variant_lookup(args.variant, args.genome_version, args.spliceai_distance,
                                    args.spliceai_mask, args.use_precomputed_scores))

\* run_spliceai, lines 368-370, on the outcome of the cache read
run_spliceai_cached(p, args, locals, cached) ==
    IF cached.found
    THEN Respond(p, spliceai_response(req[p].params, cached.results, Duration(p)),
                 [locals EXCEPT !.got = Got(cached)])
    ELSE run_spliceai_processed(p, [locals EXCEPT !.got = Got(cached)],
             process_variant_lookup(args.variant, args.genome_version, args.spliceai_distance,
                                    args.spliceai_mask, args.use_precomputed_scores))

\* run_spliceai, line 368: the cache is read under the request's key
run_spliceai_keyed(p, args, key) ==
    run_spliceai_cached(p, args,
                        [loc[p] EXCEPT !.args = args, !.key = key, !.warm = key \in DOMAIN orig,
                                       !.stages = <<"cache-check">>],
                        get_spliceai_from_redis(cache, redisUp, key))

\* run_spliceai, lines 326-366, on the outcome of the parameter checks
run_spliceai_checked(p, args) ==
    IF ~args.ok
    THEN Respond(p, error_response(args.error), loc[p])
    ELSE run_spliceai_keyed(p, args,
             get_spliceai_redis_key(args.variant, args.genome_version, args.spliceai_distance,
                                    args.spliceai_mask, args.use_precomputed_scores))

\* run_spliceai, lines 326-372: the parameters are checked, the cache is read,
\* and on a miss process_variant runs up to the computed path.  A variant
\* that is no string has no strip(): line 327 raises the AttributeError, which
\* no handler catches.
S_get(p) ==
    /\ pc[p] = "s_get"
    /\ IF "variant" \in req[p].nonstr
       THEN Respond(p, InternalServerError, loc[p])
       ELSE run_spliceai_checked(p, check_params(req[p].params))
    /\ UNCHANGED <<now, redisUp, nfail, markers, cache, req, nreq, trail, orig, owner, burst, pin, pout, df>>

\* process_variant, lines 276-302, on the results of the computed path
run_spliceai_computed(p, locals, results) ==
    IF "error" \in DOMAIN results
    THEN Respond(p, spliceai_response(req[p].params, results, Duration(p)), locals)
    ELSE /\ pc' = [pc EXCEPT ![p] = "s_put"]
         /\ loc' = [loc EXCEPT ![p] = [locals EXCEPT !.results = results]]
         /\ UNCHANGED resp

\* process_variant, lines 269-302: the model scores the variant
S_compute(p) ==
    /\ pc[p] = "s_compute"
    /\ run_spliceai_computed(p, [loc[p] EXCEPT !.invoked = TRUE, !.stages = Append(@, "compute")],
           process_variant_compute(loc[p].args.variant, loc[p].args.genome_version,
                                   loc[p].args.spliceai_distance, loc[p].args.spliceai_mask))
    /\ UNCHANGED <<now, redisUp, nfail, markers, cache, req, nreq, trail, orig, owner, burst, pin, pout, df>>

\* the parameters of a scoring request that its answer depends on
AnswerParams(args) ==
    <<args.variant, args.genome_version, args.spliceai_distance, args.spliceai_mask,
      args.use_precomputed_scores>>

\* run_spliceai, lines 371-387: the results are stored and returned
S_put(p) ==
    /\ pc[p] = "s_put"
    /\ cache' = add_spliceai_to_redis(cache, redisUp, loc[p].key, loc[p].results)
    /\ orig' = IF redisUp /\ loc[p].key \notin DOMAIN orig
               THEN REDIS_set(orig, loc[p].key, loc[p].results)
               ELSE orig
    /\ owner' = IF redisUp THEN REDIS_set(owner, loc[p].key, AnswerParams(loc[p].args)) ELSE owner
    /\ Respond(p, spliceai_response(req[p].params, loc[p].results, Duration(p)),
               [loc[p] EXCEPT !.put = IF redisUp THEN "ok" ELSE "fail",
                              !.stages = Append(@, "cache-store")])
    /\ UNCHANGED <<now, redisUp, nfail, markers, req, nreq, trail, burst, pin, pout, df>>

\* the parameters of a liftover request that its answer depends on
LiftoverParams(args) == <<args.hg, args.chrom, args.start_text, args.end_text>>

\* run_liftover, lines 535-539, on the outcome of the cache read
run_liftover_cached(p, args, locals, cached) ==
    IF cached.found
    THEN Respond(p, liftover_response(req[p].params, args, cached.result),
                 [locals EXCEPT !.got = Got(cached), !.results = cached.result])
    ELSE /\ pc' = [pc EXCEPT ![p] = "l_tool"]
         /\ loc' = [loc EXCEPT ![p] = [locals EXCEPT !.got = Got(cached)]]
         /\ UNCHANGED resp

\* run_liftover, line 535: the cache is read under the request's key
run_liftover_keyed(p, args, key) ==
    run_liftover_cached(p, args, [loc[p] EXCEPT !.args = args, !.key = key],
                        get_liftover_from_redis(cache, redisUp, key))

\* run_liftover, lines 494-533, on the outcome of the parameter checks
run_liftover_checked(p, args) ==
    IF ~args.ok
    THEN Respond(p, IF args.crashed THEN InternalServerError ELSE error_response(args.error), loc[p])
    ELSE run_liftover_keyed(p, args,
             get_liftover_redis_key(args.hg, args.chrom, args.start_text, args.end_text))

\* run_liftover, lines 494-537: the parameters are checked and the cache is read
L_get(p) ==
    /\ pc[p] = "l_get"
    /\ run_liftover_checked(p, check_liftover_params(req[p].params))
    /\ UNCHANGED <<now, redisUp, nfail, markers, cache, req, nreq, trail, orig, owner, burst, pin, pout, df>>

\* run_liftover, lines 539-543, on the outcome of the tool
run_liftover_lifted(p, locals, out) ==
    IF out.raised
    THEN Respond(p, error_response(out.error), locals)
    ELSE /\ pc' = [pc EXCEPT ![p] = "l_put"]
         /\ loc' = [loc EXCEPT ![p] = [locals EXCEPT !.results = out.result]]
         /\ UNCHANGED resp

\* lines 539-543: the liftOver tool is run
L_tool(p) ==
    /\ pc[p] = "l_tool"
    /\ run_liftover_lifted(p, [loc[p] EXCEPT !.invoked = TRUE],
           run_UCSC_liftover_tool(loc[p].args.hg, loc[p].args.chrom, loc[p].args.start,
                                  loc[p].args.end, loc[p].args.start_text, loc[p].args.end_text))
    /\ UNCHANGED <<now, redisUp, nfail, markers, cache, req, nreq, trail, orig, owner, burst, pin, pout, df>>

\* lines 545-559: the mapped interval is stored and the response is derived
L_put(p) ==
    /\ pc[p] = "l_put"
    /\ cache' = add_liftover_to_redis(cache, redisUp, loc[p].key, loc[p].results)
    /\ owner' = IF redisUp THEN REDIS_set(owner, loc[p].key, LiftoverParams(loc[p].args)) ELSE owner
    /\ Respond(p, liftover_response(req[p].params, loc[p].args, loc[p].results),
               [loc[p] EXCEPT !.put = IF redisUp THEN "ok" ELSE "fail"])
    /\ UNCHANGED <<now, redisUp, nfail, markers, req, nreq, trail, orig, burst, pin, pout, df>>

\* The response reaches the client, which takes at least one clock quantum
\* from the moment the handler read the time.  The test client fills its
\* dataframe row from the response's score (TestingDocker.py, lines 137-141).
Finish(p) ==
    /\ pc[p] = "done"
    /\ now' = now + 1
    /\ markers' = Purge(markers, now + 1)
    /\ trail' = TrailExpire(Purge(markers, now + 1))
    /\ df' = IF req[p].kind = "spliceai" /\ resp[p].status = 200 /\ ClientScores(resp[p].body) # <<>>
             THEN [filled |-> TRUE,
                   score |-> ClientScores(resp[p].body)[1],
                   row |-> update_dataframe_with_scores(ClientScores(resp[p].body)[1])]
             ELSE df
    /\ pc' = [pc EXCEPT ![p] = "idle"]
    /\ req' = [req EXCEPT ![p] = NoReq]
    /\ loc' = [loc EXCEPT ![p] = NoLoc]
    /\ resp' = [resp EXCEPT ![p] = NoResp]
    /\ UNCHANGED <<redisUp, nfail, cache, nreq, orig, owner, burst, pin, pout>>

-----------------------------------------------------------------------------
(* The environment: the clock and the backend.                             *)

TickStep == Window \div 2

\* time passes; Redis drops the keys whose deadline has come
Tick ==
    /\ now + TickStep <= MaxTime
    /\ now' = now + TickStep
    /\ markers' = Purge(markers, now + TickStep)
    /\ trail' = TrailExpire(Purge(markers, now + TickStep))
    /\ UNCHANGED <<redisUp, nfail, cache, pc, req, loc, resp, nreq, orig, owner, burst, pin, pout, df>>

\* time passes between two requests
TickIdle ==
    /\ \A p \in Procs : pc[p] = "idle"
    /\ Tick

\* the backend stops answering
RedisDown ==
    /\ redisUp
    /\ nfail < MaxFailures
    /\ redisUp' = FALSE
    /\ nfail' = nfail + 1
    /\ UNCHANGED <<now, markers, cache, pc, req, loc, resp, nreq, trail, orig, owner, burst, pin, pout, df>>

\* the backend answers again; its keys are as they were
RedisUp ==
    /\ ~redisUp
    /\ redisUp' = TRUE
    /\ UNCHANGED <<now, nfail, markers, cache, pc, req, loc, resp, nreq, trail, orig, owner, burst, pin, pout, df>>

-----------------------------------------------------------------------------
(* Spec: two workers serve the requests of one workload, in any            *)
(* interleaving, while the clock advances and the backend may fail.        *)

Issued == nreq["10.0.0.1"] + nreq["10.0.0.2"]

\* Clients are interchangeable and so are workers: the second client is the
\* one that sends after the first has sent, the second worker the one that
\* takes a request while the first is busy.
Issue(p) ==
    \E i \in burst, u \in Users :
        /\ Issued < MaxRequests
        /\ u = "10.0.0.2" => nreq["10.0.0.1"] > 0
        /\ p = 2 => pc[1] # "idle"
        /\ Start(p, i, u)

Init ==
    /\ InitServer
    /\ burst \in Workloads
    /\ pin = <<>>
    /\ pout = NoParse

Next ==
    \/ \E p \in Procs :
          \/ Issue(p)
          \/ RL_keys(p)
          \/ RL_set(p)
          \/ RL_expire(p)
          \/ S_get(p)
          \/ S_compute(p)
          \/ S_put(p)
          \/ L_get(p)
          \/ L_tool(p)
          \/ L_put(p)
          \/ Finish(p)
    \/ TickIdle
    \/ RedisDown
    \/ RedisUp

Spec == Init /\ [][Next]_vars

-----------------------------------------------------------------------------
(* SpecBurst: one client sends the same request again and again, each      *)
(* after the answer to the one before, to one worker; a second client      *)
(* sends it now and then.                                                  *)

BurstTemplates == {1, 4, 10}

IssueBurst ==
    \E i \in burst, u \in Users :
        /\ nreq[u] < (IF u = "10.0.0.1" THEN MaxBurst ELSE MaxOther)
        /\ Start(1, i, u)

InitBurst ==
    /\ InitServer
    /\ burst \in {{i} : i \in BurstTemplates}
    /\ pin = <<>>
    /\ pout = NoParse

NextBurst ==
    \/ IssueBurst
    \/ RL_keys(1)
    \/ RL_set(1)
    \/ RL_expire(1)
    \/ S_get(1)
    \/ S_compute(1)
    \/ S_put(1)
    \/ L_get(1)
    \/ L_tool(1)
    \/ L_put(1)
    \/ Finish(1)
    \/ TickIdle

SpecBurst == InitBurst /\ [][NextBurst]_vars

-----------------------------------------------------------------------------
(* SpecSeq: one client sends any two of the requests, or one of them       *)
(* twice, one after the answer to the other, to one worker; the backend    *)
(* works throughout.                                                       *)

IssueSeq ==
    \E i \in burst :
        /\ nreq["10.0.0.1"] < MaxSeq
        /\ Start(1, i, "10.0.0.1")

InitSeq ==
    /\ InitServer
    /\ burst \in {{i, j} : i, j \in 1..Len(Requests)}
    /\ pin = <<>>
    /\ pout = NoParse

NextSeq ==
    \/ IssueSeq
    \/ RL_keys(1)
    \/ RL_set(1)
    \/ RL_expire(1)
    \/ S_get(1)
    \/ S_compute(1)
    \/ S_put(1)
    \/ L_get(1)
    \/ L_tool(1)
    \/ L_put(1)
    \/ Finish(1)

SpecSeq == InitSeq /\ [][NextSeq]_vars

-----------------------------------------------------------------------------
(* SpecRace: one client sends the same request again and again to two      *)
(* workers, without waiting for the answers; the backend works throughout. *)

RaceTemplates == {2, 4, 10}

IssueRace(p) ==
    \E i \in burst :
        /\ nreq["10.0.0.1"] < MaxRace
        /\ p = 2 => pc[1] # "idle" /\ nreq["10.0.0.1"] = MaxRace - 1
        /\ Start(p, i, "10.0.0.1")

\* time passes while requests are in flight; it is observed where the
\* limiter reads the clock (line 175)
Tock ==
    /\ \E p \in Procs : pc[p] = "rl_keys"
    /\ now - (nreq["10.0.0.1"] - Cardinality({p \in Procs : pc[p] # "idle"})) < MaxTock
    /\ now' = now + 1
    /\ markers' = Purge(markers, now + 1)
    /\ trail' = TrailExpire(Purge(markers, now + 1))
    /\ UNCHANGED <<redisUp, nfail, cache, pc, req, loc, resp, nreq, orig, owner, burst, pin, pout, df>>

InitRace ==
    /\ InitServer
    /\ burst \in {{i} : i \in RaceTemplates}
    /\ pin = <<>>
    /\ pout = NoParse

NextRace ==
    \/ \E p \in Procs :
          \/ IssueRace(p)
          \/ RL_keys(p)
          \/ RL_set(p)
          \/ RL_expire(p)
          \/ S_get(p)
          \/ S_compute(p)
          \/ S_put(p)
          \/ L_get(p)
          \/ L_tool(p)
          \/ L_put(p)
          \/ Finish(p)
    \/ Tock

SpecRace == InitRace /\ [][NextRace]_vars

-----------------------------------------------------------------------------
(* SpecParse: parse_variant applied to variant strings put together from   *)
(* a chromosome, a position and two alleles.                               *)

Chars(text) ==
    CASE text = "" -> <<>>
      [] text = "chr" -> <<"c", "h", "r">>
      [] text = "1" -> <<"1">>
      [] text = "22" -> <<"2", "2">>
      [] text = "X" -> <<"X">>
      [] text = "x" -> <<"x">>
      [] text = "MT" -> <<"M", "T">>
      [] text = "Mt" -> <<"M", "t">>
      [] text = "99" -> <<"9", "9">>
      [] text = "-" -> <<"-">>
      [] text = ":" -> <<":">>
      [] text = " " -> <<" ">>
      [] text = ">" -> <<">">>
      [] text = "5" -> <<"5">>
      [] text = "0" -> <<"0">>
      [] text = "140300615" -> <<"1", "4", "0", "3", "0", "0", "6", "1", "5">>
      [] text = "1403006150" -> <<"1", "4", "0", "3", "0", "0", "6", "1", "5", "0">>
      [] text = "A" -> <<"A">>
      [] text = "CA" -> <<"C", "A">>
      [] text = "G" -> <<"G">>
      [] text = "g" -> <<"g">>

ParseInputs ==
    [prefix : {"", "chr"},
     chrom : {"1", "22", "X", "x", "MT", "Mt", "99"},
     sep1 : {"-", ":", " "},
     pos : {"5", "0", "140300615", "1403006150"},
     sep2 : {"-", ":"},
     ref : {"A", "CA"},
     sep3 : {"-", ">", ":", " "},
     alt : {"G", "g"},
     rest : {"", "x"}]

\* the variant string a client writes for the components
Render(v) ==
    Chars(v.prefix) \o Chars(v.chrom) \o Chars(v.sep1) \o Chars(v.pos) \o Chars(v.sep2)
        \o Chars(v.ref) \o Chars(v.sep3) \o Chars(v.alt) \o Chars(v.rest)

Parse ==
    /\ ~pout.called
    /\ pout' = [called |-> TRUE, result |-> parse_variant(Render(pin))]
    /\ UNCHANGED <<now, redisUp, nfail, markers, cache, pc, req, loc, resp, nreq, trail, orig, owner, burst, pin, df>>

InitParse ==
    /\ InitServer
    /\ burst = {}
    /\ pin \in ParseInputs
    /\ pout = NoParse

NextParse == Parse

SpecParse == InitParse /\ [][NextParse]_vars

-----------------------------------------------------------------------------
(* SpecOpen: one client sends the same request again and again, each after *)
(* the answer to the one before, to one worker, while the backend may      *)
(* fail.                                                                   *)

IssueOpen ==
    \E i \in burst :
        /\ nreq["10.0.0.1"] < MaxOpen
        /\ Start(1, i, "10.0.0.1")

NextOpen ==
    \/ IssueOpen
    \/ RL_keys(1)
    \/ RL_set(1)
    \/ RL_expire(1)
    \/ S_get(1)
    \/ S_compute(1)
    \/ S_put(1)
    \/ L_get(1)
    \/ L_tool(1)
    \/ L_put(1)
    \/ Finish(1)
    \/ RedisDown
    \/ RedisUp

SpecOpen == InitRace /\ [][NextOpen]_vars

-----------------------------------------------------------------------------
(* The rate limiter's ceilings.                                            *)

\* the verdict the i-th request of a clean window must get
Verdict(request_type, i) == IF i <= max_requests(request_type) THEN "admit" ELSE "deny"

\* the response of a handler whose limiter call said `deny`
Denied(p) ==
    IF loc[p].computed = "deny"
    THEN /\ resp[p].status = 400
         /\ resp[p].body["error"] = RateLimitMessage("SpliceAI: computed")
    ELSE resp[p] = error_response(RateLimitMessage(FirstRequestType(req[p].kind)))

\* C1: for every client and every class with ceiling N (SpliceAI: total 20,
\* SpliceAI: computed 4, liftover: total 12), of the requests issued one
\* after another inside one window, with the backend working and no marker
\* expiring in between, the first N are admitted and every later one is
\* denied, and a denied request is answered with the rate-limit error.
C1_FirstNAdmittedThenDenied ==
    /\ \A u \in Users, c \in RequestTypes :
          trail[u][c].ok =>
              \A i \in 1..Len(trail[u][c].verdicts) : trail[u][c].verdicts[i] = Verdict(c, i)
    /\ \A p \in Procs :
          (pc[p] = "done" /\ "deny" \in {loc[p].total, loc[p].computed}) => Denied(p)

\* the 21st scoring request of one window has just been denied
C1_Witness ==
    \E u \in Users :
        /\ trail[u]["SpliceAI: total"].ok
        /\ Len(trail[u]["SpliceAI: total"].verdicts) = 21
        /\ trail[u]["SpliceAI: total"].verdicts[21] = "deny"
        /\ \E p \in Procs : pc[p] = "done" /\ req[p].user = u /\ loc[p].total = "deny"

\* the marker's limiter call stands between its SET and its EXPIRE
InFlight(k) ==
    \E p \in Procs :
        /\ pc[p] = "rl_expire"
        /\ k = MarkerKey(req[p].user, loc[p].rtype, loc[p].epoch_time)

\* C2: once the window size has elapsed since a client's last marker was
\* recorded, all its markers have expired, so that its next request is
\* admitted and the client is never locked out for good: every recorded
\* marker is gone at most one window from now.
C2_EveryMarkerExpires ==
    \A k \in DOMAIN markers :
        InFlight(k) \/ (markers[k] # NoTTL /\ markers[k] <= now + Window)

-----------------------------------------------------------------------------
(* The scoring pipeline.                                                   *)

\* the request's variant, as run_spliceai hands it to process_variant
VariantOf(p) ==
    StripChars(StripChars(StripChars(StripChars(req[p].params["variant"], Whitespace), {"'"}), {"\""}), {","})

\* the request is a scoring request for a variant with len(ref) > 1 and len(alt) > 1
ComplexRequest(p) ==
    /\ req[p].kind = "spliceai"
    /\ "variant" \in DOMAIN req[p].params
    /\ "hg" \in DOMAIN req[p].params
    /\ LET pv == parse_variant(VariantOf(p))
       IN  pv.ok /\ Len(pv.ref) > 1 /\ Len(pv.alt) > 1

ComplexIndelError(p) ==
    /\ resp[p].status = 400
    /\ "variant" \in DOMAIN resp[p].body
    /\ resp[p].body["error"].text = "ERROR: SpliceAI does not currently support complex InDels"

\* C3 as stated: every scoring request for a complex indel is answered with
\* the complex-indel error, whatever the state of the cache and the limiter.
C3_AlwaysComplexIndelError ==
    \A p \in Procs : (pc[p] = "done" /\ ComplexRequest(p)) => ComplexIndelError(p)

\* C3 as amended: a scoring request for a complex indel never invokes
\* get_delta_scores and never writes the cache, and when the limiter admits
\* it for the total class and its parameters are valid it is answered with
\* the complex-indel error.
C3_ComplexIndelNeverComputed ==
    \A p \in Procs :
        ComplexRequest(p) =>
            /\ ~loc[p].invoked
            /\ loc[p].computed = "none"
            /\ loc[p].put = "none"
            /\ (pc[p] = "done" /\ loc[p].total = "admit" /\ check_params(req[p].params).ok)
                   => ComplexIndelError(p)

C3_Witness ==
    \E p \in Procs :
        /\ pc[p] = "done"
        /\ ComplexRequest(p)
        /\ loc[p].total = "admit"
        /\ ComplexIndelError(p)
        /\ cache # <<>>

\* C8: get_delta_scores is invoked only after the limiter has admitted the
\* request for the computed class; when the limiter denies, the model is not
\* invoked and the response is the rate-limit error naming the computed
\* ceiling.
C8_ComputeOnlyWhenAdmitted ==
    \A p \in Procs :
        /\ (req[p].kind = "spliceai" /\ (loc[p].invoked \/ pc[p] = "s_compute"))
               => loc[p].computed = "admit"
        /\ loc[p].computed = "deny" =>
               /\ ~loc[p].invoked
               /\ pc[p] = "done"
               /\ resp[p].status = 400
               /\ resp[p].body["error"] =
                      Msg("ERROR: Rate limit reached",
                          <<"SpliceAI: computed",
                            RATE_LIMIT_REQUESTS_PER_USER_PER_MINUTE["SpliceAI: computed"]>>)
               /\ "scores" \notin DOMAIN resp[p].body

\* the fifth request of a window that needs the model has just been denied
C8_Witness ==
    \E p \in Procs :
        /\ pc[p] = "done"
        /\ loc[p].computed = "deny"
        /\ ~loc[p].invoked
        /\ Len(trail[req[p].user]["SpliceAI: computed"].verdicts) = 5

-----------------------------------------------------------------------------
(* The result cache.                                                       *)

\* the entries of the cache that hold scoring results
ScoringKeys == {key \in DOMAIN cache : "source" \in DOMAIN json_loads(cache[key]).value}

\* the stored entry never carries the cache marker
StoredUntagged ==
    \A key \in ScoringKeys :
        \A i \in 1..Len(json_loads(cache[key]).value["source"]) :
            json_loads(cache[key]).value["source"][i] # CacheMarker

\* the response of p is the original result of its key, read from the cache
AnsweredFromCache(p) ==
    /\ pc[p] = "done"
    /\ resp[p].status = 200
    /\ resp[p].body["scores"] = orig[loc[p].key]["scores"]
    /\ orig[loc[p].key]["source"] \in {<<"lookup">>, <<"computed">>}
    /\ resp[p].body["source"] = Append(orig[loc[p].key]["source"], CacheMarker)

OutputFields == {"output_chrom", "output_start", "output_end", "output_strand"}

\* the liftover requests whose mapped interval the tool returns
Mapped(i) ==
    /\ Requests[i].kind = "liftover"
    /\ check_liftover_params(Requests[i].params).ok
    /\ LET a == check_liftover_params(Requests[i].params)
       IN  ~run_UCSC_liftover_tool(a.hg, a.chrom, a.start, a.end, a.start_text, a.end_text).raised

\* C9: every entry of the result cache is a successful result: a scoring
\* entry has no error, a non-empty score list and source lookup or
\* computed, a liftover entry is a mapped interval the tool returned; and
\* no request answered with an error has written to the cache.
C9_OnlySuccessfulResultsCached ==
    /\ \A key \in ScoringKeys :
          LET results == json_loads(cache[key]).value
          IN  /\ "error" \notin DOMAIN results
              /\ Len(results["scores"]) > 0
              /\ results["source"] \in {<<"lookup">>, <<"computed">>}
    /\ \A key \in DOMAIN cache \ ScoringKeys :
          \E i \in 1..Len(Requests) :
              /\ Mapped(i)
              /\ LET a == check_liftover_params(Requests[i].params)
                 IN  /\ key = get_liftover_redis_key(a.hg, a.chrom, a.start_text, a.end_text)
                     /\ DOMAIN json_loads(cache[key]).value =
                            {"chrom", "start", "end"} \cup OutputFields
                     /\ \A f \in OutputFields :
                            json_loads(cache[key]).value[f] =
                                run_UCSC_liftover_tool(a.hg, a.chrom, a.start, a.end,
                                                       a.start_text, a.end_text).result[f]
    /\ \A p \in Procs :
          (pc[p] = "done" /\ resp[p].status = 400) => loc[p].put = "none"

\* a request has ended in an error after the model ran, and the cache holds
\* nothing
C9_Witness ==
    \E p \in Procs :
        /\ pc[p] = "done"
        /\ resp[p].status = 400
        /\ loc[p].invoked
        /\ redisUp
        /\ DOMAIN cache = {}

\* the body without the time the request took
WithoutDuration(body) == [k \in DOMAIN body \ {"duration"} |-> body[k]]

\* p found the cache failing at every access, q found it working and empty;
\* the limiter gave both the same verdicts
FailedAndFresh(p, q) ==
    /\ pc[p] = "done" /\ pc[q] = "done"
    /\ req[p].kind = req[q].kind
    /\ req[p].params = req[q].params
    /\ loc[p].got = "fail" /\ loc[p].put # "ok"
    /\ loc[q].got = "miss" /\ loc[q].put # "fail"
    /\ loc[p].total = loc[q].total
    /\ loc[p].computed = loc[q].computed

-----------------------------------------------------------------------------
(* The zero-score rule.                                                    *)

\* a DP field that is absent or undefined is not a number
Absent(value) == value \notin Int

-----------------------------------------------------------------------------
(* The liftover of a variant.                                              *)

Bases(seq) == Len(seq) > 0 /\ \A i \in 1..Len(seq) : seq[i] \in {"A", "C", "G", "T"}

\* C6: for every liftover request of format "variant" with ref and alt over
\* {A,C,G,T}: when the strand the tool or the cache returned is "-",
\* output_ref and output_alt are the reverse complements of ref and alt;
\* when it is "+", they are ref and alt unchanged.
C6_StrandDecidesAlleles ==
    \A p \in Procs :
        ( /\ pc[p] = "done"
          /\ req[p].kind = "liftover"
          /\ Get(req[p].params, "format", "") = "variant"
          /\ Bases(Get(req[p].params, "ref", <<>>))
          /\ Bases(Get(req[p].params, "alt", <<>>))
          /\ (loc[p].got = "hit" \/ loc[p].put # "none") )
        => /\ resp[p].status = 200
           /\ loc[p].results["output_strand"] = <<"-">> =>
                  /\ resp[p].body["output_ref"] = reverse_complement(req[p].params["ref"])
                  /\ resp[p].body["output_alt"] = reverse_complement(req[p].params["alt"])
           /\ loc[p].results["output_strand"] = <<"+">> =>
                  /\ resp[p].body["output_ref"] = req[p].params["ref"]
                  /\ resp[p].body["output_alt"] = req[p].params["alt"]

-----------------------------------------------------------------------------
(* The parser's round trip.                                                *)

\* the chromosome name in upper case
Normalized(chrom) == CASE chrom = "x" -> "X" [] chrom = "Mt" -> "MT" [] OTHER -> chrom

\* the components are a chromosome of {1..22, X, Y, M, MT} in any letter
\* case, a positive position and two base sequences, and the string is their
\* rendering and nothing more
WellFormed(v) ==
    /\ Normalized(v.chrom) \in {"1", "22", "X", "MT"}
    /\ StrToInt(Chars(v.pos)) > 0
    /\ Bases(Chars(v.ref))
    /\ Bases(Chars(v.alt))
    /\ v.rest = ""

\* C7: parse_variant returns exactly the normalized (chrom, pos, ref, alt)
\* of every rendering of well-formed components, with or without "chr" and
\* with any allowed separators, and fails on every other string.
C7_ParseRoundTrip ==
    pout.called =>
        IF WellFormed(pin)
        THEN pout.result = [ok |-> TRUE,
                            chrom |-> Chars(Normalized(pin.chrom)),
                            pos |-> StrToInt(Chars(pin.pos)),
                            ref |-> Chars(pin.ref),
                            alt |-> Chars(pin.alt)]
        ELSE ~pout.result.ok

-----------------------------------------------------------------------------
(* The precomputed scores.                                                 *)

\* the request went through the stage
Passed(p, stage) == \E i \in 1..Len(loc[p].stages) : loc[p].stages[i] = stage

\* the request has passed run_spliceai's parameter checks
Checked(p) == req[p].kind = "spliceai" /\ loc[p].stages # <<>>

\* the four conditions of the precomputed store, on the request's parameters
FourConditions(p) ==
    /\ Len(parse_variant(loc[p].args.variant).ref) <= 5
    /\ Len(parse_variant(loc[p].args.variant).alt) <= 2
    /\ loc[p].args.spliceai_distance = SPLICEAI_DEFAULT_DISTANCE
    /\ loc[p].args.use_precomputed_scores = 1

\* the response carries a result of the precomputed store, fresh or cached
LookupSourced(p) ==
    /\ pc[p] = "done"
    /\ resp[p].status = 200
    /\ resp[p].body["source"][1] = "lookup"

\* C11: the precomputed store is queried only for a request with
\* len(ref) <= 5, len(alt) <= 2, the default distance (50) and the
\* precomputed flag 1, all four together, and no response with a
\* "lookup"-sourced result goes to a request that violates one of them.
C11_LookupOnlyWhenEligible ==
    \A p \in Procs :
        (Checked(p) /\ (Passed(p, "precomputed-fetch") \/ LookupSourced(p))) => FourConditions(p)

-----------------------------------------------------------------------------
(* The cache keys.                                                         *)

\* the parameters of the request at p that its answer depends on
ParamsOf(p) ==
    IF req[p].kind = "spliceai" THEN AnswerParams(loc[p].args) ELSE LiftoverParams(loc[p].args)

\* the request at p has read, or is about to write, the entry of its key
SharesEntry(p) ==
    /\ loc[p].key \in DOMAIN owner
    /\ loc[p].got = "hit" \/ pc[p] \in {"s_put", "l_put"}

\* C12: a request reads or overwrites a cache entry only when its
\* answer-affecting parameters (scoring: variant, build, distance, mask,
\* precomputed flag; liftover: build pair, chromosome, start, end) all equal
\* those of the request that stored the entry.
C12_KeyIsInjective ==
    \A p \in Procs : SharesEntry(p) => owner[loc[p].key] = ParamsOf(p)

-----------------------------------------------------------------------------
(* The parameters of a scoring request.                                    *)

\* the text is a decimal integer, with or without a sign
IsInteger(text) ==
    /\ text # <<>>
    /\ \A i \in 1..Len(text) : text[i] \in DigitSet \/ (i = 1 /\ Len(text) > 1 /\ text[i] \in {"-", "+"})

\* the value of an integer text
IntegerValue(text) ==
    IF text[1] = "-" THEN 0 - StrToInt(Tail(text))
    ELSE IF text[1] = "+" THEN StrToInt(Tail(text))
    ELSE StrToInt(text)

\* a missing or malformed parameter: the variant missing or empty, hg missing
\* or not "37"/"38", the distance no integer or above 10000, the mask or the
\* precomputed flag not "0"/"1"
Malformed(params) ==
    \/ "variant" \notin DOMAIN params
    \/ StripChars(StripChars(StripChars(StripChars(params["variant"], Whitespace), {"'"}), {"\""}), {","}) = <<>>
    \/ "hg" \notin DOMAIN params
    \/ params["hg"] \notin {<<"3", "7">>, <<"3", "8">>}
    \/ /\ "distance" \in DOMAIN params
       /\ ~IsInteger(params["distance"]) \/ IntegerValue(params["distance"]) > 10000
    \/ "mask" \in DOMAIN params /\ params["mask"] \notin {<<"0">>, <<"1">>}
    \/ "precomputed" \in DOMAIN params /\ params["precomputed"] \notin {<<"0">>, <<"1">>}

\* the messages of run_spliceai's parameter checks
ParameterMessages ==
    {"\"variant\" not specified", "\"variant\" value must be a string", "\"hg\" not specified", "Invalid \"hg\" value",
     "Invalid \"distance\": must be an integer", "Invalid \"distance\": must be < limit",
     "Invalid \"mask\" value", "Invalid \"precomputed\" value"}

\* C13: every scoring request with a missing or malformed parameter (the
\* variant missing, empty or not a string among them) is answered with
\* status 400 and a message (the parameter's message once the limiter has
\* admitted the request), and for such a request the cache is neither read
\* nor written, the precomputed store is not queried and the scores are not
\* computed.
C13_MalformedIsClientError ==
    \A p \in Procs :
        (req[p].kind = "spliceai" /\ (Malformed(req[p].params) \/ "variant" \in req[p].nonstr)) =>
            /\ loc[p].got = "none" /\ loc[p].put = "none"
            /\ loc[p].stages = <<>>
            /\ ~loc[p].invoked /\ loc[p].computed = "none"
            /\ pc[p] \in {"rl_keys", "rl_set", "rl_expire", "s_get", "done"}
            /\ pc[p] = "done" =>
                   /\ resp[p].status = 400
                   /\ DOMAIN resp[p].body = {"error"}
                   /\ loc[p].total = "admit" => resp[p].body["error"].text \in ParameterMessages

-----------------------------------------------------------------------------
(* The annotation check.                                                   *)

\* the scoring request at p has well-formed parameters and a variant that
\* parses and is no complex indel
Simple(p) ==
    /\ req[p].kind = "spliceai"
    /\ ~Malformed(req[p].params) /\ req[p].nonstr = {}
    /\ parse_variant(VariantOf(p)).ok
    /\ Len(parse_variant(VariantOf(p)).ref) = 1 \/ Len(parse_variant(VariantOf(p)).alt) = 1

\* the transcripts of a build that cover the variant's position:
\* TX_START <= pos <= TX_END
Covering(p, genome_version) ==
    {i \in ANNOTATION_INTERVAL_TREES(genome_version, parse_variant(VariantOf(p)).chrom) :
        /\ i.begin \div 10 <= parse_variant(VariantOf(p)).pos
        /\ parse_variant(VariantOf(p)).pos <= i.end \div 10}

\* the build of the request, and the other one
BuildOf(p) == req[p].params["hg"]
OtherBuildOf(p) == IF BuildOf(p) = <<"3", "7">> THEN <<"3", "8">> ELSE <<"3", "7">>

WrongBuildText == "ERROR: falls outside all gencode exons and introns; perhaps not the correct genome version"
OutOfAnnotationText == "ERROR: falls outside all Gencode exons and introns"

\* C14: for a parsed, non-complex variant at a position that no annotation
\* interval of the requested build covers, the precomputed store is not
\* queried, no computed-class marker is recorded, the model is not invoked
\* and nothing is cached, and the result of process_variant is the
\* wrong-build error with the overlapping genes when the other build covers
\* the position and the out-of-annotation error otherwise; TX_END is
\* covered (no such error), TX_END + 1 is not.
C14_UncoveredIsAnnotationError ==
    \A p \in Procs :
        Simple(p) =>
            IF Covering(p, BuildOf(p)) = {}
            THEN /\ ~Passed(p, "precomputed-fetch") /\ ~Passed(p, "compute")
                 /\ loc[p].computed = "none" /\ loc[p].rtype # "SpliceAI: computed"
                 /\ ~loc[p].invoked
                 /\ loc[p].put = "none" /\ pc[p] # "s_put" /\ loc[p].key \notin DOMAIN cache
                 /\ (pc[p] = "done" /\ loc[p].total = "admit") =>
                        /\ resp[p].status = 400
                        /\ resp[p].body["error"].text =
                               IF Covering(p, OtherBuildOf(p)) # {} THEN WrongBuildText
                               ELSE OutOfAnnotationText
                        /\ Covering(p, OtherBuildOf(p)) # {} =>
                               resp[p].body["error"].args[7] =
                                   {i.data : i \in Covering(p, OtherBuildOf(p))}
            ELSE (pc[p] = "done" /\ resp[p].status = 400) =>
                     resp[p].body["error"].text \notin {WrongBuildText, OutOfAnnotationText}

\* the position after a gene's TX_END has been answered with the wrong-build
\* error, and the cache holds nothing
C14_Witness ==
    \E p \in Procs :
        /\ pc[p] = "done"
        /\ Simple(p)
        /\ Covering(p, BuildOf(p)) = {}
        /\ \E i \in ANNOTATION_INTERVAL_TREES(BuildOf(p), parse_variant(VariantOf(p)).chrom) :
               parse_variant(VariantOf(p)).pos = i.end \div 10 + 1
        /\ resp[p].body["error"].text = WrongBuildText
        /\ nreq[req[p].user] = 2
        /\ cache = <<>>

-----------------------------------------------------------------------------
(* The limiter under concurrent requests.                                  *)

\* the marker of the limiter call p is in
MarkerOf(p) == MarkerKey(req[p].user, loc[p].rtype, loc[p].epoch_time)

\* C15: counting and recording are two operations on the store: a request
\* that has counted fewer than N markers records its own whatever has been
\* recorded since, so that with two requests of one client and class in
\* flight more than N are admitted inside one window.
C15_RecordIgnoresLaterMarkers ==
    [][\A p \in Procs :
          (pc[p] = "rl_set" /\ pc'[p] # "rl_set" /\ redisUp) =>
              /\ loc[p].counted < max_requests(loc[p].rtype)
              /\ pc'[p] = "rl_expire"
              /\ MarkerOf(p) \in DOMAIN markers']_vars

\* five computed-class markers of one client are live at once, each with
\* its expiry, and both requests in flight have been admitted on a count
\* below the ceiling of four
C15_Witness ==
    /\ Cardinality(REDIS_keys(markers, "10.0.0.1", "SpliceAI: computed")) >
           max_requests("SpliceAI: computed")
    /\ \A k \in DOMAIN markers : markers[k] # NoTTL /\ markers[k] > now
    /\ \A p \in Procs :
          /\ loc[p].computed = "admit"
          /\ loc[p].counted < max_requests("SpliceAI: computed")

-----------------------------------------------------------------------------
(* Two identical requests that both miss the cache.                        *)

\* p and q are the same scoring request, both found the cache working and
\* without their entry, and both have resolved the variant
BothMissed(p, q) ==
    /\ p # q
    /\ pc[p] = "done" /\ pc[q] = "done"
    /\ req[p].kind = "spliceai" /\ req[q].kind = "spliceai"
    /\ req[p].params = req[q].params
    /\ loc[p].got = "miss" /\ loc[q].got = "miss"
    /\ loc[p].put # "none" /\ loc[q].put # "none"

\* C16: two identical scoring requests that both miss the cache both resolve
\* the variant and both write the cache; their responses carry the same
\* score fields, and whichever write lands last the entry of their key is
\* the one either of them alone would have stored.
C16_DuplicateComputationIsNeutral ==
    \A p, q \in Procs :
        BothMissed(p, q) =>
            /\ loc[p].key = loc[q].key
            /\ resp[p].status = 200 /\ resp[q].status = 200
            /\ WithoutDuration(resp[p].body) = WithoutDuration(resp[q].body)
            /\ loc[p].key \in DOMAIN cache =>
                   /\ cache[loc[p].key] = json_dumps(loc[p].results)
                   /\ cache[loc[p].key] = json_dumps(loc[q].results)

\* both requests have had the model score the variant and both have written
\* the entry
C16_Witness ==
    \E p, q \in Procs :
        /\ BothMissed(p, q)
        /\ loc[p].put = "ok" /\ loc[q].put = "ok"
        /\ loc[p].invoked /\ loc[q].invoked
        /\ loc[p].key \in DOMAIN cache

-----------------------------------------------------------------------------
(* What a call of exceeds_rate_limit does to the store.                    *)

LimiterSteps == {"rl_keys", "rl_set", "rl_expire"}

\* the step in which p's call of exceeds_rate_limit returns True
Denies(p) == pc[p] \in LimiterSteps /\ pc'[p] = "done"

\* the step in which p's call of exceeds_rate_limit returns False
Admits(p) == pc[p] \in LimiterSteps /\ pc'[p] \in {"s_get", "s_compute", "l_get"}

\* the step in which p's call records its marker
Records(p) == pc[p] = "rl_set" /\ pc'[p] = "rl_expire"

\* the markers other than p's are what they were
OthersKept(p) ==
    /\ DOMAIN markers' \ {MarkerOf(p)} = DOMAIN markers \ {MarkerOf(p)}
    /\ \A k \in DOMAIN markers \ {MarkerOf(p)} : markers'[k] = markers[k]

\* C17: a denied call of exceeds_rate_limit leaves the store unchanged, no
\* marker created and no expiry touched; an admitted call has created
\* exactly one new marker of its client and class, a key that was not in the
\* store, and has changed nothing else.
C17_DenyKeepsAdmitAddsOne ==
    [][\A p \in Procs :
          /\ Denies(p) => markers' = markers
          /\ Records(p) => MarkerOf(p) \notin DOMAIN markers /\ OthersKept(p)
          /\ Admits(p) =>
                 /\ pc[p] = "rl_expire"
                 /\ MarkerOf(p) \in DOMAIN markers'
                 /\ OthersKept(p)]_vars

\* C18: in every reachable state of the store every rate-limit marker
\* carries an expiry of one window counted from its creation, whether or not
\* the backend has failed between the set and the expire and whether or not
\* two requests have recorded at the same timestamp; a marker is without
\* one at most while the call that records it stands between the two
\* operations.
C18_EveryMarkerHasItsExpiry ==
    \A k \in DOMAIN markers :
        \/ InFlight(k)
        \/ /\ markers[k] # NoTTL
           /\ markers[k] >= k.ts + RATE_LIMIT_WINDOW_SIZE_IN_MINUTES * 60

-----------------------------------------------------------------------------
(* The order of the stages of a scoring request.                           *)

\* the stages as the scoring pipeline is described
StatedOrder ==
    <<"parse", "validate", "cache-check", "precomputed-fetch", "compute", "cache-store">>

\* the stages with the cache read put first
CacheFirstOrder ==
    <<"cache-check", "parse", "validate", "precomputed-fetch", "compute", "cache-store">>

StageRank(order, stage) == CHOOSE i \in 1..Len(order) : order[i] = stage

\* the stages were gone through in the order given, none of them twice
InOrder(order, stages) ==
    \A i, j \in 1..Len(stages) :
        i < j => StageRank(order, stages[i]) < StageRank(order, stages[j])

\* the request has been answered with a result that did not come from the cache
FreshlyResolved(p) ==
    /\ pc[p] = "done"
    /\ req[p].kind = "spliceai"
    /\ resp[p].status = 200
    /\ loc[p].got # "hit"

\* the rest of the order: the store is tried before the computation, and the
\* cache store follows a successful resolution and precedes the response
StoreBeforeCompute(p) ==
    /\ Passed(p, "precomputed-fetch") \/ Passed(p, "compute") => Passed(p, "validate")
    /\ (Passed(p, "compute") /\ FourConditions(p)) => Passed(p, "precomputed-fetch")
    /\ Passed(p, "cache-store") =>
           /\ Passed(p, "precomputed-fetch") \/ Passed(p, "compute")
           /\ "error" \notin DOMAIN loc[p].results
           /\ pc[p] = "done" /\ resp[p].status = 200
    /\ FreshlyResolved(p) => Passed(p, "cache-store")

-----------------------------------------------------------------------------
(* A precomputed store without the variant.                                *)

\* the partition of the store a request is looked up in
PartitionOf(p) ==
    <<IF loc[p].args.spliceai_mask = 1 THEN "masked" ELSE "raw",
      IF Len(parse_variant(VariantOf(p)).ref) = 1 /\ Len(parse_variant(VariantOf(p)).alt) = 1
      THEN "snv" ELSE "indel",
      IF BuildOf(p) = <<"3", "7">> THEN "hg19" ELSE "hg38">>

\* the line is the request's variant: chromosome, position, ref and alt
IsLineOf(p, line) ==
    /\ line.chrom = parse_variant(VariantOf(p)).chrom
    /\ line.pos = parse_variant(VariantOf(p)).pos
    /\ line.ref = parse_variant(VariantOf(p)).ref
    /\ line.alt = parse_variant(VariantOf(p)).alt

\* the request is eligible for the store, which has no line for its variant
EligibleWithoutLine(p) ==
    /\ Simple(p)
    /\ Checked(p)
    /\ loc[p].got # "hit"
    /\ Covering(p, BuildOf(p)) # {}
    /\ FourConditions(p)
    /\ PartitionOf(p) \in DOMAIN SPLICEAI_CACHE_FILES =>
           \A i \in 1..Len(SPLICEAI_CACHE_FILES[PartitionOf(p)]) :
               ~IsLineOf(p, SPLICEAI_CACHE_FILES[PartitionOf(p)][i])

\* C20: a request that is eligible for the precomputed store, when the store
\* has no line equal to it in chromosome, position, ref and alt (other lines
\* of the range query are discarded, a missing partition or a raising fetch
\* is no line), is not answered with an error for that: it goes on to the
\* computed path, the admission check of the computed class and then the
\* model.
C20_NoLineFallsThrough ==
    \A p \in Procs :
        EligibleWithoutLine(p) =>
            /\ Passed(p, "precomputed-fetch")
            /\ pc[p] \in {"s_put", "done"} =>
                   /\ loc[p].computed \in {"admit", "deny"}
                   /\ loc[p].computed = "admit" <=> loc[p].invoked
                   /\ loc[p].computed = "deny" =>
                          resp[p].body["error"] = RateLimitMessage("SpliceAI: computed")
            /\ (pc[p] = "done" /\ resp[p].status = 200) =>
                   resp[p].body["source"] = <<"computed">>

\* the range query returned a line of the same position with another alt,
\* and the request was answered by the model
C20_Witness ==
    \E p \in Procs :
        /\ EligibleWithoutLine(p)
        /\ pc[p] = "done"
        /\ resp[p].status = 200
        /\ resp[p].body["source"] = <<"computed">>
        /\ PartitionOf(p) \in DOMAIN SPLICEAI_CACHE_FILES
        /\ \E i \in 1..Len(SPLICEAI_CACHE_FILES[PartitionOf(p)]) :
               /\ SPLICEAI_CACHE_FILES[PartitionOf(p)][i].chrom = parse_variant(VariantOf(p)).chrom
               /\ SPLICEAI_CACHE_FILES[PartitionOf(p)][i].pos = parse_variant(VariantOf(p)).pos

-----------------------------------------------------------------------------
(* The failures of the liftOver tool.                                      *)

\* the liftover request at p has run the tool
ToolRun(p) == req[p].kind = "liftover" /\ loc[p].invoked

\* what the tool did with the request's BED record
ToolOutcome(p) ==
    liftOver(loc[p].args.hg, <<"c", "h", "r">> \o without_chr(loc[p].args.chrom),
             loc[p].args.start_text, loc[p].args.end_text)

\* the text of the error the failure is reported with
FailureText(out) ==
    IF out.outcome = "failed" THEN "liftOver command failed"
    ELSE IF out.reason # "" THEN "liftover failed"
    ELSE "liftover failed for unknown reasons"

\* C21: the tool's run gives a mapped interval only when its output record
\* has at least six fields; every failure is an error that carries the reason
\* of the unmapped file when there is one and a generic text otherwise, is
\* answered with status 400, and writes nothing to the cache.
C21_ToolFailureIsClientError ==
    \A p \in Procs :
        ToolRun(p) =>
            IF ToolOutcome(p).outcome = "mapped" /\ Len(ToolOutcome(p).fields) >= 6
            THEN /\ pc[p] \in {"l_put", "done"}
                 /\ loc[p].results["output_chrom"] = ToolOutcome(p).fields[1]
                 /\ loc[p].results["output_strand"] = ToolOutcome(p).fields[6]
            ELSE /\ pc[p] = "done"
                 /\ resp[p].status = 400
                 /\ resp[p].body["error"].text = FailureText(ToolOutcome(p))
                 /\ ToolOutcome(p).reason # "" =>
                        resp[p].body["error"].args[5] = ToolOutcome(p).reason
                 /\ loc[p].put = "none"
                 /\ loc[p].key \in DOMAIN cache => owner[loc[p].key] # ParamsOf(p)

\* an unmapped position has been answered with the reason of the unmapped
\* file, and the cache holds nothing
C21_Witness ==
    \E p \in Procs :
        /\ ToolRun(p)
        /\ pc[p] = "done"
        /\ ToolOutcome(p).outcome = "unmapped"
        /\ ToolOutcome(p).reason # ""
        /\ resp[p].status = 400
        /\ resp[p].body["error"].args[5] = ToolOutcome(p).reason
        /\ cache = <<>>

-----------------------------------------------------------------------------
(* One variant written in two ways.                                        *)

\* the stored request (variant, build, distance, mask, precomputed flag) and
\* the request at p name the same variant and agree in the other parameters
SameQuery(stored, p) ==
    /\ parse_variant(stored[1]).ok
    /\ parse_variant(loc[p].args.variant).ok
    /\ parse_variant(stored[1]).chrom = parse_variant(loc[p].args.variant).chrom
    /\ parse_variant(stored[1]).pos = parse_variant(loc[p].args.variant).pos
    /\ parse_variant(stored[1]).ref = parse_variant(loc[p].args.variant).ref
    /\ parse_variant(stored[1]).alt = parse_variant(loc[p].args.variant).alt
    /\ stored[2] = loc[p].args.genome_version
    /\ stored[3] = loc[p].args.spliceai_distance
    /\ stored[4] = loc[p].args.spliceai_mask
    /\ stored[5] = loc[p].args.use_precomputed_scores

\* an earlier request has stored the result of p's query
StoredBefore(p) ==
    \E key \in ScoringKeys :
        /\ SameQuery(owner[key], p)
        /\ key = loc[p].key => loc[p].put = "none"

\* C22: two scoring requests for one variant, written with or without the
\* "chr" prefix or with other separators, and with equal build, distance,
\* mask and precomputed flag, use one cache key: once the first has
\* succeeded the second is a cache hit and takes no computed-class marker.
C22_SpellingSharesEntry ==
    \A p \in Procs :
        (Checked(p) /\ StoredBefore(p)) =>
            /\ loc[p].got = "hit"
            /\ loc[p].computed = "none"
            /\ loc[p].rtype # "SpliceAI: computed"

-----------------------------------------------------------------------------
(* The total budget.                                                       *)

\* p is in the limiter call its handler starts with
InFirstCall(p) == pc[p] \in LimiterSteps /\ loc[p].rtype = FirstRequestType(req[p].kind)

\* the markers of the two total classes a client has in the store
TotalMarkers(u) ==
    Cardinality(REDIS_keys(markers, u, "SpliceAI: total"))
        + Cardinality(REDIS_keys(markers, u, "liftover: total"))

\* the requests of a client whose first limiter call has not yet recorded
Unrecorded(u) ==
    Cardinality({p \in Procs : req[p].user = u /\ InFirstCall(p) /\ pc[p] \in {"rl_keys", "rl_set"}})

-----------------------------------------------------------------------------
(* The computed budget.                                                    *)

\* the request was answered from the cache or from the precomputed files
NotComputed(p) ==
    \/ loc[p].got = "hit"
    \/ /\ pc[p] = "done"
       /\ req[p].kind = "spliceai"
       /\ resp[p].status = 200
       /\ \/ resp[p].body["source"] = <<"lookup">>
          \/ resp[p].body["source"][Len(resp[p].body["source"])] = CacheMarker

\* the computed-class markers of a client
ComputedMarkers(u) == REDIS_keys(markers, u, "SpliceAI: computed")

\* the request at p has come to the computed path: the cache did not answer
\* and the precomputed files were not asked or had nothing
OnComputedPath(p) ==
    /\ req[p].kind = "spliceai"
    /\ loc[p].rtype = "SpliceAI: computed"
    /\ loc[p].got \in {"miss", "fail"}
    /\ Passed(p, "validate")
    /\ loc[p].results = <<>>

\* C24: a scoring request answered from the cache or from the precomputed
\* files has neither counted nor recorded a computed-class marker and has
\* not invoked the model, and a client's computed-class markers grow only
\* in a step of a request of that client that has come to the computed path.
C24_ComputedBudgetOnlyOnComputedPath ==
    /\ [](\A p \in Procs :
             NotComputed(p) =>
                 /\ loc[p].computed = "none"
                 /\ loc[p].rtype # "SpliceAI: computed"
                 /\ ~loc[p].invoked /\ ~Passed(p, "compute"))
    /\ [][\A u \in Users :
             ~(ComputedMarkers(u)' \subseteq ComputedMarkers(u)) =>
                 \E p \in Procs :
                     /\ req[p].user = u
                     /\ OnComputedPath(p)
                     /\ pc[p] = "rl_set" /\ pc'[p] = "rl_expire"]_vars

\* a request has been answered from the cache with a computed result while the
\* client holds the one computed-class marker of the request before
C24_Witness ==
    \E p \in Procs :
        /\ pc[p] = "done"
        /\ req[p].kind = "spliceai"
        /\ loc[p].got = "hit"
        /\ resp[p].body["source"] = <<"computed", CacheMarker>>
        /\ Cardinality(ComputedMarkers(req[p].user)) = 1
        /\ nreq[req[p].user] = 2

-----------------------------------------------------------------------------
(* The limiter without its store.                                          *)

\* p's limiter call comes to a store operation that raises
StoreRaises(p) == pc[p] \in LimiterSteps /\ ~redisUp /\ pc'[p] # pc[p]

\* C25: the limiter fails open: a call of exceeds_rate_limit whose keys, set
\* or expire raises returns False whatever the client and the class, and
\* leaves the store as it is, so that requests are admitted and the model is
\* run beyond every ceiling; the class of every call is one of the three
\* known, so that the ValueError of line 170 is never raised.
C25_LimiterFailsOpen ==
    /\ [](\A p \in Procs : pc[p] \in LimiterSteps => loc[p].rtype \in RequestTypes)
    /\ [][\A p \in Procs :
             StoreRaises(p) =>
                 /\ Admits(p)
                 /\ markers' = markers
                 /\ loc'[p].total = "admit"
                 /\ loc[p].rtype = "SpliceAI: computed" => loc'[p].computed = "admit"]_vars

\* with the computed-class ceiling reached and the backend down, one more
\* request has been admitted and the model has run
C25_Witness ==
    \E p \in Procs :
        /\ ~redisUp
        /\ pc[p] = "done"
        /\ loc[p].computed = "admit"
        /\ loc[p].invoked
        /\ Cardinality(ComputedMarkers(req[p].user)) >= max_requests("SpliceAI: computed")
        /\ \A k \in ComputedMarkers(req[p].user) : markers[k] # NoTTL /\ markers[k] > now

-----------------------------------------------------------------------------
(* Parameters named like output fields.                                    *)

\* the liftover request at p has been answered with a mapped interval
Lifted(p) ==
    /\ pc[p] = "done"
    /\ req[p].kind = "liftover"
    /\ resp[p].status = 200
    /\ loc[p].got = "hit" \/ loc[p].put # "none"

\* C26: in every successful liftover response output_chrom, output_start,
\* output_end and output_strand are what the tool or the cache returned,
\* whatever parameters the request carries: a parameter named like an output
\* field does not replace it, does not decide whether the alleles are
\* reverse-complemented, and is not in the cache entry.
C26_ParametersNeverOverrideOutput ==
    \A p \in Procs :
        Lifted(p) =>
            /\ \A f \in OutputFields : resp[p].body[f] = loc[p].results[f]
            /\ "output_ref" \in DOMAIN resp[p].body =>
                   resp[p].body["output_ref"] =
                       IF loc[p].results["output_strand"] = <<"-">>
                       THEN reverse_complement(req[p].params["ref"])
                       ELSE req[p].params["ref"]
            /\ loc[p].key \in DOMAIN cache =>
                   /\ DOMAIN json_loads(cache[loc[p].key]).value =
                          {"chrom", "start", "end"} \cup OutputFields
                   /\ \A f \in OutputFields :
                          json_loads(cache[loc[p].key]).value[f] = loc[p].results[f]

====
